---- MODULE Spec2Model ----
(***************************************************************************)
(* ScriptSync worker: frame sampler and tagging retry controller           *)
(* (worker/src/tagger.js), clip pipeline (worker/src/processor.js), job    *)
(* poller (worker/src/index.js) and matching engine                        *)
(* (worker/src/matcher.js).                                                *)
(*                                                                         *)
(* Each component has its own specification over its own variables; the    *)
(* variables of the other components are held at their idle value.         *)
(***************************************************************************)
EXTENDS Integers, Sequences, FiniteSets, TLC

VARIABLES
    fs,         \* frame sampler: one selectRepresentativeFrames invocation
    tg,         \* tagging retry controller: one tagClip invocation
    clips,      \* store: the clips table, by clip id
    profile,    \* store: the profiles row of the clips' user
    storage,    \* object store: the objects of bucket "frames"
    worker,     \* worker process: startup phase, timer, clock, environment
    ticks,      \* the poll() invocations, with the processClip run of each
    dirs,       \* local disk: the working directories that exist
    segments,   \* store: the script_segments rows of the project, by position
    matches,    \* store: the matches table
    calls,      \* the computeMatches invocations
    http,       \* HTTP server: its environment and the requests it has received
    cs,         \* one cosineSimilarity call: its arguments and what it did
    subs        \* web app: the script submissions (POST of the script route)

pipeVars == <<clips, profile, storage, worker, ticks, dirs>>

matchVars == <<segments, matches, calls>>

vars ==
    <<fs, tg, clips, profile, storage, worker, ticks, dirs, segments, matches, calls, http,
      cs, subs>>

Null == "null"

Range(s) == {s[i] : i \in 1..Len(s)}

Min2(a, b) == IF a <= b THEN a ELSE b

Max2(a, b) == IF a >= b THEN a ELSE b

(***************************************************************************)
(* tagger.js: configuration                                                *)
(***************************************************************************)
MAX_FRAMES_PER_CALL == 20

MAX_RETRIES == 3

RETRY_DELAY_MS == 2000

\* Largest frame count the frame sampler is run on.
MaxFrameCount == 44

(***************************************************************************)
(* Frame files.  A frame's path is `${framesDir}/frame_${i.toString()      *)
(* .padStart(4, '0')}.jpg`; the directory and the extension are the same   *)
(* for every frame of a run, so a path is modelled by its digit string.    *)
(***************************************************************************)
RECURSIVE ToDigits(_)
ToDigits(n) == IF n < 10 THEN <<n>> ELSE Append(ToDigits(n \div 10), n % 10)

RECURSIVE PadStart(_, _)
PadStart(s, width) == IF Len(s) >= width THEN s ELSE PadStart(<<0>> \o s, width)

FramePath(i) == PadStart(ToDigits(i), 4)

\* existsSync(p) for a frames directory holding exactly the frames `present`.
ExistsSync(present, p) == \E k \in present : FramePath(k) = p

Includes(seq, x) == \E k \in 1..Len(seq) : seq[k] = x

(***************************************************************************)
(* selectRepresentativeFrames(framesDir, frameCount)                       *)
(***************************************************************************)
SelStep(frameCount) == Max2(1, frameCount \div MAX_FRAMES_PER_CALL)

\* The for loop of lines 43-46, from loop variable i with `selected` so far.
RECURSIVE SelWalk(_, _, _, _)
SelWalk(present, frameCount, i, selected) ==
    IF i <= frameCount /\ Len(selected) < MAX_FRAMES_PER_CALL
    THEN SelWalk(present, frameCount, i + SelStep(frameCount),
                 IF ExistsSync(present, FramePath(i))
                 THEN Append(selected, FramePath(i))
                 ELSE selected)
    ELSE selected

\* Lines 48-52: the last frame is pushed when it exists and is not selected.
SelEnsureLast(present, frameCount, selected) ==
    LET lastPath == FramePath(frameCount) IN
    IF ExistsSync(present, lastPath) /\ ~Includes(selected, lastPath)
    THEN Append(selected, lastPath)
    ELSE selected

selectRepresentativeFrames(present, frameCount) ==
    IF frameCount = 0 THEN <<>>
    ELSE SelEnsureLast(present, frameCount, SelWalk(present, frameCount, 1, <<>>))

FsIdle == [pc |-> "idle", frameCount |-> 0, present |-> {}, selected |-> <<>>]

(***************************************************************************)
(* JavaScript values of a model response: a string, a number or nothing.   *)
(***************************************************************************)
JStr(s) == [type |-> "string", val |-> s]

JNum(n) == [type |-> "number", val |-> ToString(n)]

JNull == [type |-> "undefined", val |-> ""]

\* String.prototype.trim on the strings the model uses.
Trim(s) ==
    CASE s = "   " -> ""
      [] s = " A dog runs. " -> "A dog runs."
      [] s = "Dog " -> "Dog"
      [] s = "dog " -> "dog"
      [] s = " " -> ""
      [] OTHER -> s

\* String.prototype.toLowerCase on the strings the model uses.
ToLowerCase(s) ==
    CASE s = "Dog " -> "dog "
      [] s = "Dog" -> "dog"
      [] OTHER -> s

\* message.includes(needle) for the error messages the model uses.
MsgIncludes(message, needle) ==
    <<message, needle>> \in
        {<<"401 invalid_api_key: bad key", "invalid_api_key">>,
         <<"permission_error: model not allowed", "permission_error">>,
         <<"Could not parse Claude response as JSON: Sorry: permission_error", "permission_error">>}

(***************************************************************************)
(* What one anthropic.messages.create call can give: a response whose      *)
(* first content block has the text, or a rejection with an API error.     *)
(***************************************************************************)
TagJson(description, tags) ==
    [kind |-> "response", text |-> "json", description |-> description, tags |-> tags]

TagResponses ==
    {TagJson(JStr(" A dog runs. "), <<JStr("Dog "), JNum(7), JStr("   "), JStr("beach")>>),
     TagJson(JStr("A dog runs."), <<>>),
     TagJson(JStr("   "), <<JStr("beach")>>),
     TagJson(JStr(""), <<>>),
     TagJson(JNum(42), <<>>),
     TagJson(JNull, <<>>),
     [kind |-> "response", text |-> "garbage", description |-> JNull, tags |-> <<>>],
     [kind |-> "response", text |-> "Sorry: permission_error", description |-> JNull,
      tags |-> <<>>],
     [kind |-> "response", text |-> "", description |-> JNull, tags |-> <<>>]}

TagApiErrors ==
    {[kind |-> "rejected", status |-> 401, message |-> "authentication_error"],
     [kind |-> "rejected", status |-> 403, message |-> "forbidden"],
     [kind |-> "rejected", status |-> 400, message |-> "401 invalid_api_key: bad key"],
     [kind |-> "rejected", status |-> 0, message |-> "permission_error: model not allowed"],
     [kind |-> "rejected", status |-> 429, message |-> "rate_limit_error"],
     [kind |-> "rejected", status |-> 529, message |-> "overloaded_error"],
     [kind |-> "rejected", status |-> 0, message |-> "Connection error."]}

TagCallOutcomes == TagResponses \cup TagApiErrors

\* An Error object: `attempt` tells the errors of different attempts apart
\* (0: raised before the first attempt).
TagError(status, message, attempt) ==
    [status |-> status, message |-> message, attempt |-> attempt]

NoError == TagError(0, "", 0)

NoResult == [description |-> "", tags |-> <<>>]

(***************************************************************************)
(* parseTaggingResponse(text): a result, or the Error it throws.           *)
(***************************************************************************)
RECURSIVE ParseTags(_)
ParseTags(tags) ==
    IF tags = <<>> THEN <<>>
    ELSE LET t == Head(tags)
             norm == Trim(ToLowerCase(t.val))
         IN  IF t.type = "string" /\ norm # ""
             THEN <<norm>> \o ParseTags(Tail(tags))
             ELSE ParseTags(Tail(tags))

\* Line 71: the message of the parse error quotes the start of the text.
parseTaggingResponse(r, attempt) ==
    IF r.text # "json"
    THEN [ok |-> FALSE,
          error |-> TagError(0, "Could not parse Claude response as JSON: " \o r.text, attempt)]
    ELSE LET description == IF r.description.type = "string"
                            THEN Trim(r.description.val) ELSE ""
         IN  IF description = ""
             THEN [ok |-> FALSE,
                   error |-> TagError(0, "Claude returned an empty description", attempt)]
             ELSE [ok |-> TRUE,
                   result |-> [description |-> description, tags |-> ParseTags(r.tags)]]

\* The body of the try block of one attempt (lines 127-149).
TagAttempt(outcome, attempt) ==
    IF outcome.kind = "rejected"
    THEN [ok |-> FALSE, error |-> TagError(outcome.status, outcome.message, attempt)]
    ELSE IF outcome.text = ""
    THEN [ok |-> FALSE, error |-> TagError(0, "Empty response from Claude API", attempt)]
    ELSE parseTaggingResponse(outcome, attempt)

isAuthError(err) ==
    \/ err.status = 401
    \/ err.status = 403
    \/ MsgIncludes(err.message, "invalid_api_key")
    \/ MsgIncludes(err.message, "permission_error")

RECURSIVE Pow2(_)
Pow2(n) == IF n = 0 THEN 1 ELSE 2 * Pow2(n - 1)

\* Mutant: the exponent is the attempt number, not attempt - 1.
RetryDelay_ExponentOffByOne(attempt) == RETRY_DELAY_MS * Pow2(attempt)

RetryDelay(attempt) == RETRY_DELAY_MS * Pow2(attempt - 1)

(***************************************************************************)
(* tagClip(framesDir, frameCount) as a state machine.  pc: "called",       *)
(* "call" (awaiting messages.create of `attempt`), "sleep" (awaiting the   *)
(* backoff sleep), "returned", "thrown".  log: the model calls and sleeps  *)
(* made so far, in order.                                                  *)
(***************************************************************************)
TgIdle ==
    [pc |-> "idle", apiKey |-> FALSE, frameCount |-> 0, present |-> {}, attempt |-> 0,
     lastError |-> NoError, log |-> <<>>, result |-> NoResult]

TagEntered(apiKey, present, frameCount) ==
    [TgIdle EXCEPT !.pc = "called", !.apiKey = apiKey, !.present = present,
                   !.frameCount = frameCount]

\* Lines 99-125: up to the first await.
TagBegin(t) ==
    IF ~t.apiKey
    THEN [t EXCEPT !.pc = "thrown",
                   !.lastError = TagError(0, "ANTHROPIC_API_KEY environment variable is not set", 0)]
    ELSE IF Len(selectRepresentativeFrames(t.present, t.frameCount)) = 0
    THEN [t EXCEPT !.pc = "thrown",
                   !.lastError = TagError(0, "No frames available for tagging", 0)]
    ELSE [t EXCEPT !.pc = "call", !.attempt = 1, !.log = <<<<"call", 1>>>>]

\* Mutant: an auth error is retried like any other error.
TagAfterCall_RetriesAuth(t, outcome) ==
    LET a == TagAttempt(outcome, t.attempt) IN
    IF a.ok
    THEN [t EXCEPT !.pc = "returned", !.result = a.result]
    ELSE IF t.attempt = MAX_RETRIES
    THEN [t EXCEPT !.pc = "thrown", !.lastError = a.error]
    ELSE [t EXCEPT !.pc = "sleep", !.lastError = a.error,
                   !.log = Append(t.log, <<"sleep", RetryDelay(t.attempt)>>)]

\* Mutant: the first error is kept (lastError is assigned only once).
TagAfterCall_KeepsFirstError(t, outcome) ==
    LET a == TagAttempt(outcome, t.attempt)
        e == IF t.lastError = NoError THEN a.error ELSE t.lastError
    IN
    IF a.ok
    THEN [t EXCEPT !.pc = "returned", !.result = a.result]
    ELSE IF isAuthError(a.error) \/ t.attempt = MAX_RETRIES
    THEN [t EXCEPT !.pc = "thrown", !.lastError = e]
    ELSE [t EXCEPT !.pc = "sleep", !.lastError = e,
                   !.log = Append(t.log, <<"sleep", RetryDelay(t.attempt)>>)]

\* Lines 141-173: the awaited call of `attempt` settles with `outcome`.
TagAfterCall(t, outcome) ==
    LET a == TagAttempt(outcome, t.attempt) IN
    IF a.ok
    THEN [t EXCEPT !.pc = "returned", !.result = a.result]
    ELSE IF isAuthError(a.error) \/ t.attempt = MAX_RETRIES
    THEN [t EXCEPT !.pc = "thrown", !.lastError = a.error]
    ELSE [t EXCEPT !.pc = "sleep", !.lastError = a.error,
                   !.log = Append(t.log, <<"sleep", RetryDelay(t.attempt)>>)]

\* The sleep resolves: the for loop increments attempt and calls again.
TagAfterSleep(t) ==
    [t EXCEPT !.pc = "call", !.attempt = t.attempt + 1,
              !.log = Append(t.log, <<"call", t.attempt + 1>>)]

TagTerminal(t) == t.pc \in {"returned", "thrown"}

\* Every way tagClip can end from state t when the model calls settle with
\* outcomes of the set `outcomes`.
RECURSIVE TagFinals(_, _)
TagFinals(t, outcomes) ==
    CASE t.pc = "called" -> TagFinals(TagBegin(t), outcomes)
      [] t.pc = "call" -> UNION {TagFinals(TagAfterCall(t, o), outcomes) : o \in outcomes}
      [] t.pc = "sleep" -> TagFinals(TagAfterSleep(t), outcomes)
      [] OTHER -> {t}

(***************************************************************************)
(* Store, object store and worker process                                  *)
(***************************************************************************)
\* processor.js: const VIDEO_SECONDS_CAP = 5 * 60 * 60
VIDEO_SECONDS_CAP == 5 * 60 * 60

\* index.js: .limit(5)
POLL_BATCH_LIMIT == 5

\* extractFrames: const frameInterval = 2, and the slack of the counting loop.
FRAME_INTERVAL == 2

FRAME_COUNT_SLACK == 10

\* Clips the web app inserts (with status processing), in creation order.
NumClips == 1

\* poll() invocations that can be in progress at the same time.
MaxPolls == 2

\* Largest index of a frame file ffmpeg writes.
MaxFrameIdx == 2

ClipIds == 1..NumClips

TickIds == 1..MaxPolls

\* Seconds the user has already processed when the worker starts.
InitialSeconds == VIDEO_SECONDS_CAP - 10

\* Durations ffprobe reports.
Durations == {10, 11}

NoClip ==
    [status |-> "absent", duration_seconds |-> 0, frames_extracted |-> 0,
     thumbnail_path |-> FALSE, description |-> "", tags |-> <<>>, error_message |-> "",
     embedding |-> <<>>]

\* POST /api/clips: the clip row as inserted.
NewClip == [NoClip EXCEPT !.status = "processing"]

\* A clip the pipeline has made ready.
TaggedClip ==
    [NewClip EXCEPT !.status = "ready", !.duration_seconds = 10, !.frames_extracted = 1,
                    !.thumbnail_path = TRUE, !.description = "A dog runs.",
                    !.tags = <<"dog", "beach">>]

\* The locals of a processClip run.  trace (the awaits so far) and capRead
\* (how the profile select of checkDurationCap ended: "no" before it,
\* "row" or "failed") are history.
NoRun ==
    [pc |-> "none", clip |-> 0, workDir |-> 0, duration |-> 0, frames |-> {},
     frameCount |-> 0, i |-> 0, description |-> "", tags |-> <<>>, message |-> "",
     trace |-> <<>>, capRead |-> "no"]

NoTick == [st |-> "idle", batch |-> <<>>, idx |-> 0, run |-> NoRun]

\* computeMatches(projectId, topK = 5)
DEFAULT_TOP_K == 5

\* Script segments of the project, in position order.
NumSegments == 2

\* Clips of the project the matching engine works on.
NumMatchClips == 2

\* computeMatches invocations that can be in progress at the same time.
MaxCalls == 2

\* Segments times invocations in progress: two invocations overlap over a
\* script of one segment, one invocation works on a script of two.
MaxLoad == 2

\* A column that is null.  No embedding the model uses is the empty array.
NoEmbedding == <<>>

\* The matches table: how many rows there are of each content (rows differ
\* in their generated id only).
NoMatches == [r \in {} |-> 0]

\* The locals of a computeMatches invocation.  History, not program state:
\* overlapped says that another invocation was in progress at some time of
\* this one; repeat says that this invocation was started with the topK of
\* the invocation before it, which had returned and was the only one so far,
\* and before is the matches table as that invocation left it.
NoCall ==
    [pc |-> "idle", topK |-> 0, segments |-> <<>>, clips |-> <<>>, i |-> 0,
     embedding |-> NoEmbedding, message |-> "", overlapped |-> FALSE, repeat |-> FALSE,
     before |-> NoMatches]

\* No script, no match row, no computeMatches invocation.
MatchIdle ==
    /\ segments = <<>>
    /\ matches = NoMatches
    /\ calls = [i \in 1..MaxCalls |-> NoCall]

\* Script submissions the web app receives.
MaxSubmissions == 2

\* A submission slot no request has arrived in.
NoSubmission == [pc |-> "idle", paragraphs |-> <<>>, status |-> 0, overlapped |-> FALSE]

NoSubmissions == [j \in 1..MaxSubmissions |-> NoSubmission]

\* No cosineSimilarity call under study.
CsIdle ==
    [pc |-> "idle", a |-> <<>>, b |-> <<>>,
     ab |-> [ok |-> FALSE, num |-> 0, den |-> 1], ba |-> [ok |-> FALSE, num |-> 0, den |-> 1]]

\* HTTP requests the server receives.
MaxRequests == 2

\* A request slot no request has arrived in.  `pending` holds the chunks of
\* the body still to arrive, `body` the chunks received, `events` what the
\* handler has done for the request, in order.
NoRequest ==
    [st |-> "none", method |-> "", url |-> "", authorization |-> "", pending |-> <<>>,
     body |-> <<>>, events |-> <<>>, call |-> 0]

\* The server has received no request; WORKER_API_KEY is not set.
ServerIdle == http = [key |-> "", requests |-> [r \in 1..MaxRequests |-> NoRequest]]

\* No worker process: nothing polls and no run is in progress.
WorkerIdle ==
    /\ profile = [total_video_seconds |-> 0]
    /\ storage = {}
    /\ worker = [phase |-> "off", apiKey |-> FALSE, pollError |-> FALSE]
    /\ ticks = [t \in TickIds |-> NoTick]
    /\ dirs = {}

PipeIdle == clips = [c \in ClipIds |-> NoClip] /\ WorkerIdle /\ MatchIdle /\ ServerIdle

(***************************************************************************)
(* tagClip as the pipeline sees it: its result or its error message.  The  *)
(* controller shares no state with other runs, so the pipeline takes it as *)
(* one step.  The model calls of a pipeline run settle with one of         *)
(* PipelineCallOutcomes.                                                   *)
(***************************************************************************)
PipelineCallOutcomes ==
    {TagJson(JStr(" A dog runs. "), <<JStr("Dog "), JNum(7), JStr("   "), JStr("beach")>>),
     TagJson(JStr("   "), <<JStr("beach")>>),
     [kind |-> "rejected", status |-> 401, message |-> "authentication_error"],
     [kind |-> "rejected", status |-> 429, message |-> "rate_limit_error"]}

TagSummary(f) ==
    IF f.pc = "returned"
    THEN [ok |-> TRUE, description |-> f.result.description, tags |-> f.result.tags,
          message |-> ""]
    ELSE [ok |-> FALSE, description |-> "", tags |-> <<>>, message |-> f.lastError.message]

TagClipTable ==
    [k \in BOOLEAN \X (SUBSET (1..MaxFrameIdx)) \X (0..MaxFrameIdx) |->
        {TagSummary(f) : f \in TagFinals(TagEntered(k[1], k[2], k[3]), PipelineCallOutcomes)}]

tagClip(apiKey, frames, frameCount) == TagClipTable[<<apiKey, frames, frameCount>>]

(***************************************************************************)
(* Job poller (index.js) and clip pipeline (processor.js).                 *)
(*                                                                         *)
(* JavaScript runs one continuation at a time: an action is the code from  *)
(* the settling of one awaited operation to the next await.  A run's pc    *)
(* names the operation it awaits.                                          *)
(***************************************************************************)
InitPipe ==
    /\ clips = [c \in ClipIds |-> NoClip]
    /\ profile = [total_video_seconds |-> InitialSeconds]
    /\ storage = {}
    /\ \E k \in BOOLEAN : worker = [phase |-> "ping", apiKey |-> k, pollError |-> FALSE]
    /\ ticks = [t \in TickIds |-> NoTick]
    /\ dirs = {}
    /\ MatchIdle /\ ServerIdle /\ cs = CsIdle /\ subs = NoSubmissions

Init == fs = FsIdle /\ tg = TgIdle /\ InitPipe

\* POST /api/clips inserts the next clip, status processing.
InsertClip ==
    /\ \E c \in DOMAIN clips :
          /\ clips[c].status = "absent"
          /\ \A b \in DOMAIN clips : b < c => clips[b].status # "absent"
          /\ clips' = [clips EXCEPT ![c] = NewClip]
    /\ UNCHANGED <<fs, tg, profile, storage, worker, ticks, dirs, matchVars, http, cs, subs>>

\* index.js 142: server.listen is called once the connectivity check has
\* succeeded, before the first poll().
Listening == worker.phase \in {"firstPoll", "interval"}

\* Mutant: poll() is called before the result of the check is looked at.
StartupPing_PollsBeforeCheck ==
    /\ worker.phase = "ping"
    /\ \/ /\ worker' = [worker EXCEPT !.phase = "exited"]
          /\ ticks' = [ticks EXCEPT ![1].st = "query"]
       \/ /\ worker' = [worker EXCEPT !.phase = "firstPoll"]
          /\ ticks' = [ticks EXCEPT ![1].st = "query"]
    /\ UNCHANGED <<fs, tg, clips, profile, storage, dirs, matchVars, http, cs, subs>>

\* index.js 134-147: the connectivity check settles; on success the server
\* listens and the first poll() is called and awaited.
StartupPing ==
    /\ worker.phase = "ping"
    /\ \/ /\ worker' = [worker EXCEPT !.phase = "exited"]
          /\ UNCHANGED ticks
       \/ /\ worker' = [worker EXCEPT !.phase = "firstPoll"]
          /\ ticks' = [ticks EXCEPT ![1].st = "query"]
    /\ UNCHANGED <<fs, tg, clips, profile, storage, dirs, matchVars, http, cs, subs>>

\* index.js 148: the interval timer calls poll(), whatever earlier calls do.
TimerFires ==
    /\ worker.phase = "interval"
    /\ \E t \in DOMAIN ticks :
          /\ ticks[t].st = "idle"
          /\ \A u \in DOMAIN ticks : u < t => ticks[u].st # "idle"
          /\ ticks' = [ticks EXCEPT ![t].st = "query"]
    /\ UNCHANGED <<fs, tg, clips, profile, storage, worker, dirs, matchVars, http, cs, subs>>

\* The clips with status processing, oldest first.
RECURSIVE ProcessingFrom(_)
ProcessingFrom(c) ==
    IF c \notin DOMAIN clips THEN <<>>
    ELSE IF clips[c].status = "processing" THEN <<c>> \o ProcessingFrom(c + 1)
    ELSE ProcessingFrom(c + 1)

\* Mutant: the discovery query has no status filter.
RECURSIVE InsertedFrom(_)
InsertedFrom(c) ==
    IF c \notin DOMAIN clips THEN <<>>
    ELSE IF clips[c].status # "absent" THEN <<c>> \o InsertedFrom(c + 1)
    ELSE InsertedFrom(c + 1)

DiscoveryQuery_AnyStatus ==
    LET all == InsertedFrom(1) IN SubSeq(all, 1, Min2(POLL_BATCH_LIMIT, Len(all)))

\* Mutant: the discovery query has no limit.
DiscoveryQuery_NoLimit == ProcessingFrom(1)

\* index.js 45-50: status = processing, order by created_at ascending, limit 5.
DiscoveryQuery ==
    LET all == ProcessingFrom(1) IN SubSeq(all, 1, Min2(POLL_BATCH_LIMIT, Len(all)))

\* tempDir(): the directory is named by the millisecond Date.now() returns: a
\* name no directory on disk has, or that of a run started in the same
\* millisecond.  Names are only compared, so the new one is the least unused.
ClockReads ==
    LET names == 1..(Cardinality(DOMAIN ticks) + 1) IN
    dirs \cup {CHOOSE d \in names : d \notin dirs /\ \A e \in 1..(d - 1) : e \in dirs}

\* processClip(clip) up to its first await: tempDir(), then the download.
StartRun(c, d) ==
    [NoRun EXCEPT !.pc = "download", !.clip = c, !.workDir = d, !.trace = <<"download">>]

\* Mutant: a run that threw ends the tick.
TickAfterRun_AbortsOnFailure(tk, d) ==
    IF tk.idx < Len(tk.batch) /\ tk.run.pc # "errorUpdate"
    THEN [tk EXCEPT !.idx = tk.idx + 1, !.run = StartRun(tk.batch[tk.idx + 1], d)]
    ELSE NoTick

\* The for loop of poll() after the run of the current clip ended: the next
\* clip of the batch is started in directory d, or poll() returns.
TickAfterRun(tk, d) ==
    IF tk.idx < Len(tk.batch)
    THEN [tk EXCEPT !.idx = tk.idx + 1, !.run = StartRun(tk.batch[tk.idx + 1], d)]
    ELSE NoTick

\* index.js 147-148: setInterval is called when the awaited first poll() returns.
\* (worker.pollError is history: a discovery query has returned an error.)
WorkerAfterTick(tk) ==
    [worker EXCEPT !.phase = IF worker.phase = "firstPoll" /\ tk.st = "idle"
                             THEN "interval" ELSE worker.phase]

\* Mutant: poll() throws the error of the discovery query, which ends the
\* process at the awaited first poll and is an unhandled rejection of a
\* timer tick.
PollQuery_ThrowsOnError(t) ==
    /\ ticks[t].st = "query"
    /\ \/ /\ ticks' = [ticks EXCEPT ![t] = NoTick]
          /\ worker' = [worker EXCEPT !.phase = "exited", !.pollError = TRUE]
          /\ UNCHANGED dirs
       \/ /\ DiscoveryQuery = <<>>
          /\ ticks' = [ticks EXCEPT ![t] = NoTick]
          /\ worker' = WorkerAfterTick(NoTick)
          /\ UNCHANGED dirs
       \/ /\ DiscoveryQuery # <<>>
          /\ \E d \in ClockReads :
                /\ ticks' = [ticks EXCEPT ![t] =
                                [@ EXCEPT !.st = "running", !.batch = DiscoveryQuery, !.idx = 1,
                                          !.run = StartRun(DiscoveryQuery[1], d)]]
                /\ UNCHANGED worker
                /\ dirs' = dirs \cup {d}
    /\ UNCHANGED <<fs, tg, clips, profile, storage, matchVars, http, cs, subs>>

\* index.js 45-61: the discovery query settles.
PollQuery(t) ==
    /\ ticks[t].st = "query"
    /\ \/ \* error: it is logged and poll() returns
          /\ ticks' = [ticks EXCEPT ![t] = NoTick]
          /\ worker' = [WorkerAfterTick(NoTick) EXCEPT !.pollError = TRUE]
          /\ UNCHANGED dirs
       \/ \* no clip: poll() returns
          /\ DiscoveryQuery = <<>>
          /\ ticks' = [ticks EXCEPT ![t] = NoTick]
          /\ worker' = WorkerAfterTick(NoTick)
          /\ UNCHANGED dirs
       \/ /\ DiscoveryQuery # <<>>
          /\ \E d \in ClockReads :
                /\ ticks' = [ticks EXCEPT ![t] =
                                [@ EXCEPT !.st = "running", !.batch = DiscoveryQuery, !.idx = 1,
                                          !.run = StartRun(DiscoveryQuery[1], d)]]
                /\ UNCHANGED worker
                /\ dirs' = dirs \cup {d}
    /\ UNCHANGED <<fs, tg, clips, profile, storage, matchVars, http, cs, subs>>

Awaits(t, pc) == ticks[t].st = "running" /\ ticks[t].run.pc = pc

\* The run of tick t goes on to await `pc`.
Goto(t, pc, run) ==
    ticks' = [ticks EXCEPT ![t].run = [run EXCEPT !.pc = pc, !.trace = Append(run.trace, pc)]]

\* processor.js 298-310: a step threw an Error with `message`; the catch block
\* issues the error update.  The locals of the try block are out of scope.
Throw(t, message, run) ==
    Goto(t, "errorUpdate",
         [NoRun EXCEPT !.clip = run.clip, !.workDir = run.workDir, !.trace = run.trace,
                       !.capRead = run.capRead, !.message = message])

\* processor.js 209: the download settles.
DownloadSettles(t) ==
    /\ Awaits(t, "download")
    /\ \/ Goto(t, "probe", ticks[t].run)
       \/ Throw(t, "Failed to download", ticks[t].run)
    /\ UNCHANGED <<fs, tg, clips, profile, storage, worker, dirs, matchVars, http, cs, subs>>

\* processor.js 214-218: ffprobe settles; the profile select is issued.
ProbeSettles(t) ==
    /\ Awaits(t, "probe")
    /\ \/ \E d \in Durations : Goto(t, "capCheck", [ticks[t].run EXCEPT !.duration = d])
       \/ Throw(t, "Could not determine video duration", ticks[t].run)
    /\ UNCHANGED <<fs, tg, clips, profile, storage, worker, dirs, matchVars, http, cs, subs>>

\* checkDurationCap line 180, for the total read from the profile.
WithinCap(total, additionalSeconds) == total + additionalSeconds <= VIDEO_SECONDS_CAP

\* Mutant: the check fails closed: no profile row, no admission.
CapCheckSettles_FailsClosed(t) ==
    LET run == ticks[t].run
        failed == [run EXCEPT !.capRead = "failed"]
        read == [run EXCEPT !.capRead = "row"]
    IN
    /\ Awaits(t, "capCheck")
    /\ \/ Throw(t, "Video would exceed 5-hour duration cap", failed)
       \/ IF WithinCap(profile.total_video_seconds, run.duration)
          THEN Goto(t, "extract", read)
          ELSE Throw(t, "Video would exceed 5-hour duration cap", read)
    /\ UNCHANGED <<fs, tg, clips, profile, storage, worker, dirs, matchVars, http, cs, subs>>

\* processor.js 168-181 and 218-227: the profile select settles.  When the row
\* cannot be read the clip is allowed (175-178).
CapCheckSettles(t) ==
    LET run == ticks[t].run
        failed == [run EXCEPT !.capRead = "failed"]
        read == [run EXCEPT !.capRead = "row"]
    IN
    /\ Awaits(t, "capCheck")
    /\ \/ Goto(t, "extract", failed)
       \/ IF WithinCap(profile.total_video_seconds, run.duration)
          THEN Goto(t, "extract", read)
          ELSE Throw(t, "Video would exceed 5-hour duration cap", read)
    /\ UNCHANGED <<fs, tg, clips, profile, storage, worker, dirs, matchVars, http, cs, subs>>

\* extractFrames 71 and 85-91: the frame files counted among 1..numFrames+10.
CountFrames(frames, duration) ==
    LET numFrames == (duration + FRAME_INTERVAL - 1) \div FRAME_INTERVAL IN
    Cardinality({i \in frames : i <= numFrames + FRAME_COUNT_SLACK})

\* processor.js 68-94 and 227-233: ffmpeg settles, having written the frame
\* files `frames`; the thumbnail extraction is started.
ExtractSettles(t) ==
    LET run == ticks[t].run IN
    /\ Awaits(t, "extract")
    /\ \/ \E frames \in SUBSET (1..MaxFrameIdx) :
             Goto(t, "thumbnail",
                  [run EXCEPT !.frames = frames,
                              !.frameCount = CountFrames(frames, run.duration)])
       \/ Throw(t, "Failed to extract frames", run)
    /\ UNCHANGED <<fs, tg, clips, profile, storage, worker, dirs, matchVars, http, cs, subs>>

\* processor.js 240-247: the upload loop from index i: the next frame that is
\* on disk is uploaded; after the last one the thumbnail is uploaded.
NextUpload(t, run, i) ==
    LET todo == {k \in i..run.frameCount : k \in run.frames} IN
    IF todo = {}
    THEN Goto(t, "thumbnailUpload", [run EXCEPT !.i = 0])
    ELSE Goto(t, "frameUpload", [run EXCEPT !.i = CHOOSE k \in todo : \A j \in todo : k <= j])

\* processor.js 99-112 and 233-247: the thumbnail extraction settles.
ThumbnailSettles(t) ==
    /\ Awaits(t, "thumbnail")
    /\ \/ NextUpload(t, ticks[t].run, 1)
       \/ Throw(t, "Failed to extract thumbnail", ticks[t].run)
    /\ UNCHANGED <<fs, tg, clips, profile, storage, worker, dirs, matchVars, http, cs, subs>>

\* Objects of bucket "frames": {userId}/{projectId}/{clipId}/frames/frame_NNNN.jpg
\* and {userId}/{projectId}/{clipId}/thumbnail.jpg.
FrameObject(c, i) == <<c, "frame", FramePath(i)>>

ThumbnailObject(c) == <<c, "thumbnail", <<>>>>

\* Mutant: upsert: true, an existing object is replaced.
uploadFile_Upsert(object, ok) ==
    IF ok THEN storage' = storage \cup {object}
    ELSE UNCHANGED storage

\* uploadFile 148-163 with upsert: false: the object is stored (ok) only if
\* it does not exist; any upload may fail.
uploadFile(object, ok) ==
    IF ok THEN object \notin storage /\ storage' = storage \cup {object}
    ELSE UNCHANGED storage

\* processor.js 244-247: the upload of frame i settles.
FrameUploadSettles(t) ==
    LET run == ticks[t].run IN
    /\ Awaits(t, "frameUpload")
    /\ \/ uploadFile(FrameObject(run.clip, run.i), TRUE) /\ NextUpload(t, run, run.i + 1)
       \/ uploadFile(FrameObject(run.clip, run.i), FALSE) /\ Throw(t, "Failed to upload", run)
    /\ UNCHANGED <<fs, tg, clips, profile, worker, dirs, matchVars, http, cs, subs>>

\* processor.js 253-262: the thumbnail upload settles; tagClip is called.
ThumbnailUploadSettles(t) ==
    LET run == ticks[t].run IN
    /\ Awaits(t, "thumbnailUpload")
    /\ \/ uploadFile(ThumbnailObject(run.clip), TRUE) /\ Goto(t, "tag", run)
       \/ uploadFile(ThumbnailObject(run.clip), FALSE) /\ Throw(t, "Failed to upload", run)
    /\ UNCHANGED <<fs, tg, clips, profile, worker, dirs, matchVars, http, cs, subs>>

\* Mutant: a tagging failure is not fatal: the clip is marked ready with no
\* description.
TagSettles_NonFatal(t) ==
    LET run == ticks[t].run IN
    /\ Awaits(t, "tag")
    /\ \E o \in tagClip(worker.apiKey, run.frames, run.frameCount) :
          IF o.ok
          THEN Goto(t, "readyUpdate", [run EXCEPT !.description = o.description, !.tags = o.tags])
          ELSE Goto(t, "readyUpdate", run)
    /\ UNCHANGED <<fs, tg, clips, profile, storage, worker, dirs, matchVars, http, cs, subs>>

\* processor.js 262-287: tagClip settles; on success the ready update is
\* issued, on failure the error is thrown again to the outer catch.
TagSettles(t) ==
    LET run == ticks[t].run IN
    /\ Awaits(t, "tag")
    /\ \E o \in tagClip(worker.apiKey, run.frames, run.frameCount) :
          IF o.ok
          THEN Goto(t, "readyUpdate", [run EXCEPT !.description = o.description, !.tags = o.tags])
          ELSE Throw(t, o.message, run)
    /\ UNCHANGED <<fs, tg, clips, profile, storage, worker, dirs, matchVars, http, cs, subs>>

\* Mutant: the ready update does not write frames_extracted.
ReadyRow_NoFrameCount(row, run) ==
    [row EXCEPT !.status = "ready", !.duration_seconds = run.duration,
                !.thumbnail_path = TRUE,
                !.description = run.description, !.tags = run.tags]

\* processor.js 278-286: the row as the ready update writes it.
ReadyRow(row, run) ==
    [row EXCEPT !.status = "ready", !.duration_seconds = run.duration,
                !.frames_extracted = run.frameCount, !.thumbnail_path = TRUE,
                !.description = run.description, !.tags = run.tags]

\* processor.js 305-309: the row as the error update writes it.
ErrorRow(row, run) == [row EXCEPT !.status = "error", !.error_message = run.message]

\* Mutant: add_video_seconds is called before the result of the ready update
\* is looked at.
ReadyUpdateSettles_CountsOnFailure(t) ==
    LET run == ticks[t].run IN
    /\ Awaits(t, "readyUpdate")
    /\ \/ /\ clips' = [clips EXCEPT ![run.clip] = ReadyRow(@, run)]
          /\ Goto(t, "addSeconds", run)
       \/ /\ UNCHANGED clips
          /\ Goto(t, "addSeconds", run)
    /\ UNCHANGED <<fs, tg, profile, storage, worker, dirs, matchVars, http, cs, subs>>

\* processor.js 276-294: the ready update settles; on success
\* add_video_seconds is called.
ReadyUpdateSettles(t) ==
    LET run == ticks[t].run IN
    /\ Awaits(t, "readyUpdate")
    /\ \/ /\ clips' = [clips EXCEPT ![run.clip] = ReadyRow(@, run)]
          /\ Goto(t, "addSeconds", run)
       \/ /\ UNCHANGED clips
          /\ Throw(t, "Failed to update clip", run)
    /\ UNCHANGED <<fs, tg, profile, storage, worker, dirs, matchVars, http, cs, subs>>

\* Mutant: the working directory is deleted only when the run returns.
FinishRun_NoCleanupOnThrow(t) ==
    LET left == IF ticks[t].run.pc = "errorUpdate" THEN dirs
                ELSE dirs \ {ticks[t].run.workDir}
    IN
    \E d \in ClockReads :
        LET tk == TickAfterRun(ticks[t], d) IN
        /\ ticks' = [ticks EXCEPT ![t] = tk]
        /\ worker' = WorkerAfterTick(tk)
        /\ dirs' = IF tk.st = "running" THEN left \cup {d} ELSE left

\* processor.js 313-316 and index.js 63-70: the finally block deletes the
\* working directory, processClip returns or throws, and poll() goes on.
FinishRun(t) ==
    LET left == dirs \ {ticks[t].run.workDir} IN
    \E d \in ClockReads :
        LET tk == TickAfterRun(ticks[t], d) IN
        /\ ticks' = [ticks EXCEPT ![t] = tk]
        /\ worker' = WorkerAfterTick(tk)
        /\ dirs' = IF tk.st = "running" THEN left \cup {d} ELSE left

\* 003_add_video_seconds_rpc.sql 14-16.
add_video_seconds(row, seconds) ==
    [row EXCEPT !.total_video_seconds = row.total_video_seconds + seconds]

\* Mutant: an error of the rpc is thrown into the catch block.
AddSecondsSettles_Propagates(t) ==
    /\ Awaits(t, "addSeconds")
    /\ \/ /\ profile' = add_video_seconds(profile, ticks[t].run.duration)
          /\ FinishRun(t)
       \/ /\ UNCHANGED <<profile, worker, dirs>>
          /\ Throw(t, "Failed to update video seconds", ticks[t].run)
    /\ UNCHANGED <<fs, tg, clips, storage, matchVars, http, cs, subs>>

\* processor.js 186-196 and 294-296: the rpc settles; its error is logged.
AddSecondsSettles(t) ==
    /\ Awaits(t, "addSeconds")
    /\ \/ profile' = add_video_seconds(profile, ticks[t].run.duration)
       \/ UNCHANGED profile
    /\ FinishRun(t)
    /\ UNCHANGED <<fs, tg, clips, storage, matchVars, http, cs, subs>>

\* processor.js 303-312: the error update settles; its result is not looked
\* at, and the error is thrown again.
ErrorUpdateSettles(t) ==
    LET run == ticks[t].run IN
    /\ Awaits(t, "errorUpdate")
    /\ \/ clips' = [clips EXCEPT ![run.clip] = ErrorRow(@, run)]
       \/ UNCHANGED clips
    /\ FinishRun(t)
    /\ UNCHANGED <<fs, tg, profile, storage, matchVars, http, cs, subs>>

Next ==
    \/ InsertClip
    \/ StartupPing
    \/ TimerFires
    \/ \E t \in DOMAIN ticks : PollQuery(t)
    \/ \E t \in DOMAIN ticks : DownloadSettles(t)
    \/ \E t \in DOMAIN ticks : ProbeSettles(t)
    \/ \E t \in DOMAIN ticks : CapCheckSettles(t)
    \/ \E t \in DOMAIN ticks : ExtractSettles(t)
    \/ \E t \in DOMAIN ticks : ThumbnailSettles(t)
    \/ \E t \in DOMAIN ticks : FrameUploadSettles(t)
    \/ \E t \in DOMAIN ticks : ThumbnailUploadSettles(t)
    \/ \E t \in DOMAIN ticks : TagSettles(t)
    \/ \E t \in DOMAIN ticks : ReadyUpdateSettles(t)
    \/ \E t \in DOMAIN ticks : AddSecondsSettles(t)
    \/ \E t \in DOMAIN ticks : ErrorUpdateSettles(t)

Spec == Init /\ [][Next]_vars

(***************************************************************************)
(* Batch specification: the worker with one poll() in progress at a time   *)
(* and a batch of several clips.                                           *)
(***************************************************************************)
\* Clips the web app inserts while one poll() runs at a time.
NumBatchClips == 2

InitBatch ==
    /\ fs = FsIdle /\ tg = TgIdle /\ MatchIdle /\ ServerIdle /\ cs = CsIdle /\ subs = NoSubmissions
    /\ clips = [c \in 1..NumBatchClips |-> NoClip]
    /\ profile = [total_video_seconds |-> InitialSeconds]
    /\ storage = {}
    /\ \E k \in BOOLEAN : worker = [phase |-> "ping", apiKey |-> k, pollError |-> FALSE]
    /\ ticks = [t \in 1..1 |-> NoTick]
    /\ dirs = {}

SpecBatch == InitBatch /\ [][Next]_vars

(***************************************************************************)
(* Discovery specification: the discovery query of a timer tick over clip  *)
(* tables of more rows than the batch limit.  The runs of the batch are    *)
(* left to the batch specification.                                        *)
(***************************************************************************)
\* Rows of the clips table when the timer fires.
MaxQueryClips == 6

\* A clip whose run has failed.
FailedClip == ErrorRow(NewClip, [NoRun EXCEPT !.message = "Failed to download"])

InitQuery ==
    /\ fs = FsIdle /\ tg = TgIdle /\ MatchIdle /\ ServerIdle /\ cs = CsIdle /\ subs = NoSubmissions
    /\ clips \in [1..MaxQueryClips -> {NewClip, TaggedClip, FailedClip}]
    /\ profile = [total_video_seconds |-> 0]
    /\ storage = {}
    /\ \E k \in BOOLEAN : worker = [phase |-> "interval", apiKey |-> k, pollError |-> FALSE]
    /\ ticks = [t \in 1..1 |-> NoTick]
    /\ dirs = {}

NextQuery ==
    \/ TimerFires
    \/ \E t \in DOMAIN ticks : PollQuery(t)

SpecQuery == InitQuery /\ [][NextQuery]_vars

(***************************************************************************)
(* Matching engine (matcher.js).                                           *)
(*                                                                         *)
(* An embedding is a tuple of integers.  A similarity score is kept as the *)
(* pair (num, den) of the real number num / sqrt(den), den > 0, so that    *)
(* scores are compared exactly; the code computes the same quotient in     *)
(* floating point.                                                         *)
(***************************************************************************)
\* Values of the topK parameter: a caller's own, and the default.
TopKs == {1, DEFAULT_TOP_K}

\* Embeddings the embedding model returns.
Vectors == {<<1, 0>>, <<1, 1>>}

\* Segment contents, trimmed by the script route.
Contents == {"", "A dog on a beach."}

\* generateEmbedding 48: !text || text.trim().length === 0
IsEmptyText(text) == Trim(text) = ""

\* tags.join(', ') as the sequence of its pieces.
RECURSIVE JoinTags(_)
JoinTags(tags) ==
    IF tags = <<>> THEN <<>>
    ELSE IF Len(tags) = 1 THEN <<tags[1]>>
    ELSE <<tags[1], ", ">> \o JoinTags(Tail(tags))

\* String.prototype.trim on a text given by its pieces: the blank pieces at
\* both ends are dropped.
RECURSIVE TrimPieces(_)
TrimPieces(pieces) ==
    IF pieces = <<>> THEN <<>>
    ELSE IF Trim(Head(pieces)) = "" THEN TrimPieces(Tail(pieces))
    ELSE IF Trim(pieces[Len(pieces)]) = "" THEN TrimPieces(SubSeq(pieces, 1, Len(pieces) - 1))
    ELSE pieces

\* clipTextForEmbedding 68-71: `${description || ''} ${tagString}`.trim()
clipTextForEmbedding(description, tags) ==
    TrimPieces(<<description, " ">> \o JoinTags(tags))

RECURSIVE Dot(_, _)
Dot(a, b) == IF a = <<>> THEN 0 ELSE Head(a) * Head(b) + Dot(Tail(a), Tail(b))

\* Mutant: vectors of different lengths score 0.
cosineSimilarity_NoLengthCheck(a, b) ==
    IF Len(a) # Len(b) THEN [ok |-> TRUE, num |-> 0, den |-> 1]
    ELSE LET dot == Dot(a, b)
             normA == Dot(a, a)
             normB == Dot(b, b)
         IN  IF normA = 0 \/ normB = 0
             THEN [ok |-> TRUE, num |-> 0, den |-> 1]
             ELSE [ok |-> TRUE, num |-> dot, den |-> normA * normB]

\* Mutant: the dot product is divided by the norm of a alone, squared.
cosineSimilarity_NormOfFirst(a, b) ==
    IF Len(a) # Len(b) THEN [ok |-> FALSE, num |-> 0, den |-> 1]
    ELSE LET dot == Dot(a, b)
             normA == Dot(a, a)
         IN  [ok |-> TRUE, num |-> dot, den |-> normA * normA]

\* cosineSimilarity 159-182; ok is FALSE when it throws.
cosineSimilarity(a, b) ==
    IF Len(a) # Len(b) THEN [ok |-> FALSE, num |-> 0, den |-> 1]
    ELSE LET dot == Dot(a, b)
             normA == Dot(a, a)
             normB == Dot(b, b)
         IN  IF normA = 0 \/ normB = 0
             THEN [ok |-> TRUE, num |-> 0, den |-> 1]
             ELSE [ok |-> TRUE, num |-> dot, den |-> normA * normB]

SignedSquare(n) == IF n < 0 THEN 0 - n * n ELSE n * n

\* x < y for two scores.
ScoreLess(x, y) == SignedSquare(x.num) * y.den < SignedSquare(y.num) * x.den

HasEmbedding(row) == row.embedding # NoEmbedding

\* computeMatches 247-248.
ValidSegments(c) == SelectSeq(c.segments, HasEmbedding)

ValidClips(c) == SelectSeq(c.clips, HasEmbedding)

\* computeMatches 267-275.
Similarities(segment, validClips) ==
    [k \in 1..Len(validClips) |->
        [clipId |-> validClips[k].id,
         score |-> cosineSimilarity(segment.embedding, validClips[k].embedding)]]

\* Array.prototype.sort with (a, b) => b.score - a.score: descending and
\* stable.
InsertByScore(sorted, x) ==
    LET n == Cardinality({j \in 1..Len(sorted) : ~ScoreLess(sorted[j].score, x.score)}) IN
    SubSeq(sorted, 1, n) \o <<x>> \o SubSeq(sorted, n + 1, Len(sorted))

RECURSIVE SortDescending(_)
SortDescending(similarities) ==
    IF similarities = <<>> THEN <<>>
    ELSE InsertByScore(SortDescending(SubSeq(similarities, 1, Len(similarities) - 1)),
                       similarities[Len(similarities)])

\* computeMatches 281: similarities.slice(0, topK)
TopMatches(similarities, topK) ==
    SubSeq(SortDescending(similarities), 1, Min2(topK, Len(similarities)))

\* Mutant: the rank is the index itself, not index + 1.
MatchRows_RankFromZero(segmentId, topMatches) ==
    {[segment_id |-> segmentId, clip_id |-> topMatches[index + 1].clipId,
      similarity_score |-> topMatches[index + 1].score, rank |-> index] :
        index \in 0..(Len(topMatches) - 1)}

\* computeMatches 284-289: the rows of one insert, index counting from 0.
MatchRows(segmentId, topMatches) ==
    {[segment_id |-> segmentId, clip_id |-> topMatches[index + 1].clipId,
      similarity_score |-> topMatches[index + 1].score, rank |-> index + 1] :
        index \in 0..(Len(topMatches) - 1)}

\* matches.insert(rows)
InsertRows(table, rows) ==
    [r \in DOMAIN table \cup rows |->
        (IF r \in DOMAIN table THEN table[r] ELSE 0) + (IF r \in rows THEN 1 ELSE 0)]

\* Mutant: the delete removes no row.
DeleteIn_Nothing(table, segmentIds) == table

\* Mutant: the delete removes the rows of one segment only.
DeleteIn_OneSegment(table, segmentIds) ==
    [r \in {x \in DOMAIN table :
                \E s \in segmentIds : s < x.segment_id \/ x.segment_id \notin segmentIds}
        |-> table[r]]

\* matches.delete().in('segment_id', segmentIds)
DeleteIn(table, segmentIds) ==
    [r \in {x \in DOMAIN table : x.segment_id \notin segmentIds} |-> table[r]]

\* The invocation has returned or thrown; its locals are gone.
CallEnded(c, how) == [NoCall EXCEPT !.pc = how, !.topK = c.topK, !.repeat = c.repeat]

\* The invocation has thrown an Error with `message` (matcher.js 312-315).
CallFailed(c, message) == [CallEnded(c, "thrown") EXCEPT !.message = message]

CallActive(c) == c.pc \notin {"idle", "returned", "thrown"}

\* computeMatches 266-300 from the k-th valid segment: the scores are
\* computed (cosineSimilarity may throw) and the insert is issued.
RECURSIVE InsertFrom(_, _)
InsertFrom(c, k) ==
    IF k > Len(ValidSegments(c)) THEN CallEnded(c, "returned")
    ELSE LET similarities == Similarities(ValidSegments(c)[k], ValidClips(c)) IN
         IF \E j \in 1..Len(similarities) : ~similarities[j].score.ok
         THEN CallFailed(c, "Vectors must have same length")
         ELSE IF similarities = <<>> THEN InsertFrom(c, k + 1)
         ELSE [c EXCEPT !.pc = "insert", !.i = k]

\* computeMatches 247-263: the delete is issued if there is a valid segment.
BeginDelete(c) ==
    IF ValidSegments(c) # <<>> THEN [c EXCEPT !.pc = "delete", !.i = 0]
    ELSE InsertFrom(c, 1)

Missing(rows, from) == {k \in from..Len(rows) : ~HasEmbedding(rows[k])}

Least(S) == CHOOSE k \in S : \A j \in S : k <= j

\* computeMatches 234-244 from the k-th clip.
EnsureClipsFrom(c, k) ==
    IF Missing(c.clips, k) = {} THEN BeginDelete(c)
    ELSE [c EXCEPT !.pc = "clipFetch", !.i = Least(Missing(c.clips, k))]

\* computeMatches 221-232 from the k-th segment.
EnsureSegmentsFrom(c, k) ==
    IF Missing(c.segments, k) = {} THEN EnsureClipsFrom(c, 1)
    ELSE [c EXCEPT !.pc = "segmentFetch", !.i = Least(Missing(c.segments, k))]

CallAwaits(i, pc) == calls[i].pc = pc

CallBecomes(i, c) == calls' = [calls EXCEPT ![i] = c]

CallThrows(i, message) == CallBecomes(i, CallFailed(calls[i], message))

InitMatch ==
    /\ fs = FsIdle /\ tg = TgIdle /\ WorkerIdle /\ ServerIdle /\ cs = CsIdle /\ subs = NoSubmissions
    /\ clips \in [1..NumMatchClips -> {NewClip, TaggedClip}]
    /\ \E n \in 0..NumSegments :
          /\ segments \in [1..n -> {[content |-> t, embedding |-> NoEmbedding] : t \in Contents}]
          /\ calls = [i \in 1..(IF n * MaxCalls <= MaxLoad THEN MaxCalls ELSE 1) |-> NoCall]
    /\ matches = NoMatches

\* matcher.js 309-311 and 190-194: processMatches is called and runs to its
\* first await in slot i; the invocations in progress are overlapped by it.
StartedCalls(i, topK) ==
    [j \in DOMAIN calls |->
        IF j = i
        THEN LET repeat == /\ calls[i].pc = "returned"
                           /\ calls[i].topK = topK
                           /\ \A o \in DOMAIN calls : o # i => calls[o].pc = "idle"
             IN  [NoCall EXCEPT
                     !.pc = "segmentQuery", !.topK = topK,
                     !.overlapped = \E o \in DOMAIN calls : CallActive(calls[o]),
                     !.repeat = repeat,
                     !.before = IF repeat THEN matches ELSE NoMatches]
        ELSE IF CallActive(calls[j]) THEN [calls[j] EXCEPT !.overlapped = TRUE]
        ELSE calls[j]]

\* index.js 110, matcher.js 309-311 and 194: POST /match starts
\* processMatches whatever other invocations are doing; another caller may
\* pass its own topK.
MatchRequested ==
    \E i \in DOMAIN calls, topK \in TopKs :
        /\ ~CallActive(calls[i])
        /\ \A j \in DOMAIN calls : j < i => CallActive(calls[j])
        /\ calls' = StartedCalls(i, topK)
        /\ UNCHANGED <<fs, tg, pipeVars, segments, matches, http, cs, subs>>

\* computeMatches 194-209: the segment query settles.
SegmentQuerySettles(i) ==
    /\ CallAwaits(i, "segmentQuery")
    /\ \/ CallThrows(i, "Failed to fetch segments")
       \/ CallBecomes(i, [calls[i] EXCEPT
              !.pc = "clipQuery",
              !.segments = [s \in DOMAIN segments |->
                               [id |-> s, embedding |-> segments[s].embedding]]])
    /\ UNCHANGED <<fs, tg, pipeVars, segments, matches, http, cs, subs>>

\* Mutant: the clip query has no status filter.
ReadyClipOrders_AnyStatus ==
    {q \in [1..Cardinality(DOMAIN clips) -> DOMAIN clips] :
        \A j, k \in DOMAIN q : q[j] = q[k] => j = k}

\* The ready clips in the orders a query without ORDER BY can return them.
ReadyClipOrders ==
    LET ready == {c \in DOMAIN clips : clips[c].status = "ready"} IN
    {q \in [1..Cardinality(ready) -> ready] : \A j, k \in DOMAIN q : q[j] = q[k] => j = k}

\* Mutant: the invocation goes on when a fetched set is empty.
ClipQuerySettles_NoEarlyReturn(i) ==
    /\ CallAwaits(i, "clipQuery")
    /\ \/ CallThrows(i, "Failed to fetch clips")
       \/ \E q \in ReadyClipOrders :
             LET c == [calls[i] EXCEPT
                          !.clips = [k \in DOMAIN q |->
                                        [id |-> q[k], embedding |-> clips[q[k]].embedding]]]
             IN  CallBecomes(i, EnsureSegmentsFrom(c, 1))
    /\ UNCHANGED <<fs, tg, pipeVars, segments, matches, http, cs, subs>>

\* computeMatches 205-223: the clip query settles.
ClipQuerySettles(i) ==
    /\ CallAwaits(i, "clipQuery")
    /\ \/ CallThrows(i, "Failed to fetch clips")
       \/ \E q \in ReadyClipOrders :
             LET c == [calls[i] EXCEPT
                          !.clips = [k \in DOMAIN q |->
                                        [id |-> q[k], embedding |-> clips[q[k]].embedding]]]
             IN  IF Len(c.segments) = 0 \/ Len(c.clips) = 0
                 THEN CallBecomes(i, CallEnded(c, "returned"))
                 ELSE CallBecomes(i, EnsureSegmentsFrom(c, 1))
    /\ UNCHANGED <<fs, tg, pipeVars, segments, matches, http, cs, subs>>

\* ensureSegmentEmbedding 122-137: the fetch settles.
SegmentFetchSettles(i) ==
    LET c == calls[i]
        s == c.segments[c.i].id
    IN
    /\ CallAwaits(i, "segmentFetch")
    /\ \/ CallThrows(i, "Failed to fetch segment")
       \/ IF HasEmbedding(segments[s]) THEN CallBecomes(i, [c EXCEPT !.pc = "segmentRefetch"])
          ELSE IF IsEmptyText(segments[s].content)
          THEN CallThrows(i, "Cannot generate embedding for empty text")
          ELSE CallBecomes(i, [c EXCEPT !.pc = "segmentEmbed"])
    /\ UNCHANGED <<fs, tg, pipeVars, segments, matches, http, cs, subs>>

\* generateEmbedding 53-59 and ensureSegmentEmbedding 137-142: the embedding
\* model settles; the update is issued.
SegmentEmbedSettles(i) ==
    /\ CallAwaits(i, "segmentEmbed")
    /\ \/ CallThrows(i, "embedding request failed")
       \/ \E v \in Vectors :
             CallBecomes(i, [calls[i] EXCEPT !.pc = "segmentStore", !.embedding = v])
    /\ UNCHANGED <<fs, tg, pipeVars, segments, matches, http, cs, subs>>

\* ensureSegmentEmbedding 139-148 and computeMatches 225-229: the update
\* settles; the refetch is issued.
SegmentStoreSettles(i) ==
    LET c == calls[i]
        s == c.segments[c.i].id
    IN
    /\ CallAwaits(i, "segmentStore")
    /\ \/ CallThrows(i, "Failed to store embedding for segment") /\ UNCHANGED segments
       \/ /\ segments' = [segments EXCEPT ![s].embedding = c.embedding]
          /\ CallBecomes(i, [c EXCEPT !.pc = "segmentRefetch", !.embedding = NoEmbedding])
    /\ UNCHANGED <<fs, tg, pipeVars, matches, http, cs, subs>>

\* computeMatches 225-232: the refetch settles; without data,
\* updated.embedding throws.
SegmentRefetchSettles(i) ==
    LET c == calls[i]
        s == c.segments[c.i].id
    IN
    /\ CallAwaits(i, "segmentRefetch")
    /\ \/ CallThrows(i, "Cannot read properties of null")
       \/ CallBecomes(i, EnsureSegmentsFrom(
              [c EXCEPT !.segments[c.i].embedding = segments[s].embedding], c.i + 1))
    /\ UNCHANGED <<fs, tg, pipeVars, segments, matches, http, cs, subs>>

\* Mutant: a clip with an empty text fails the invocation, as a segment does.
ClipFetchSettles_ThrowsOnEmptyText(i) ==
    LET c == calls[i]
        id == c.clips[c.i].id
    IN
    /\ CallAwaits(i, "clipFetch")
    /\ \/ CallThrows(i, "Failed to fetch clip")
       \/ IF HasEmbedding(clips[id]) THEN CallBecomes(i, [c EXCEPT !.pc = "clipRefetch"])
          ELSE IF clipTextForEmbedding(clips[id].description, clips[id].tags) = <<>>
          THEN CallThrows(i, "Cannot generate embedding for empty text")
          ELSE CallBecomes(i, [c EXCEPT !.pc = "clipEmbed"])
    /\ UNCHANGED <<fs, tg, pipeVars, segments, matches, http, cs, subs>>

\* ensureClipEmbedding 79-102: the fetch settles.
ClipFetchSettles(i) ==
    LET c == calls[i]
        id == c.clips[c.i].id
    IN
    /\ CallAwaits(i, "clipFetch")
    /\ \/ CallThrows(i, "Failed to fetch clip")
       \/ IF HasEmbedding(clips[id]) THEN CallBecomes(i, [c EXCEPT !.pc = "clipRefetch"])
          ELSE IF clipTextForEmbedding(clips[id].description, clips[id].tags) = <<>>
          THEN CallBecomes(i, [c EXCEPT !.pc = "clipRefetch"])
          ELSE CallBecomes(i, [c EXCEPT !.pc = "clipEmbed"])
    /\ UNCHANGED <<fs, tg, pipeVars, segments, matches, http, cs, subs>>

\* generateEmbedding 53-59 and ensureClipEmbedding 102-107.
ClipEmbedSettles(i) ==
    /\ CallAwaits(i, "clipEmbed")
    /\ \/ CallThrows(i, "embedding request failed")
       \/ \E v \in Vectors :
             CallBecomes(i, [calls[i] EXCEPT !.pc = "clipStore", !.embedding = v])
    /\ UNCHANGED <<fs, tg, pipeVars, segments, matches, http, cs, subs>>

\* ensureClipEmbedding 104-113 and computeMatches 237-241.
ClipStoreSettles(i) ==
    LET c == calls[i]
        id == c.clips[c.i].id
    IN
    /\ CallAwaits(i, "clipStore")
    /\ \/ CallThrows(i, "Failed to store embedding for clip") /\ UNCHANGED clips
       \/ /\ clips' = [clips EXCEPT ![id].embedding = c.embedding]
          /\ CallBecomes(i, [c EXCEPT !.pc = "clipRefetch", !.embedding = NoEmbedding])
    /\ UNCHANGED <<fs, tg, profile, storage, worker, ticks, dirs, segments, matches, http, cs, subs>>

\* computeMatches 237-244.
ClipRefetchSettles(i) ==
    LET c == calls[i]
        id == c.clips[c.i].id
    IN
    /\ CallAwaits(i, "clipRefetch")
    /\ \/ CallThrows(i, "Cannot read properties of null")
       \/ CallBecomes(i, EnsureClipsFrom(
              [c EXCEPT !.clips[c.i].embedding = clips[id].embedding], c.i + 1))
    /\ UNCHANGED <<fs, tg, pipeVars, segments, matches, http, cs, subs>>

\* Mutant: the delete is issued before the embeddings of the clips are
\* ensured.
DeleteSettles_BeforeClipEmbeddings(i) ==
    LET c == calls[i]
        segmentIds == {ValidSegments(c)[k].id : k \in 1..Len(ValidSegments(c))}
    IN
    /\ CallAwaits(i, "delete")
    /\ \/ CallThrows(i, "Failed to clear existing matches") /\ UNCHANGED matches
       \/ /\ matches' = DeleteIn(matches, segmentIds)
          /\ CallBecomes(i, IF Missing(c.clips, 1) = {} THEN InsertFrom(c, 1)
                            ELSE EnsureClipsFrom(c, 1))
    /\ UNCHANGED <<fs, tg, pipeVars, segments, http, cs, subs>>

\* computeMatches 253-275: the delete settles.
DeleteSettles(i) ==
    LET c == calls[i]
        segmentIds == {ValidSegments(c)[k].id : k \in 1..Len(ValidSegments(c))}
    IN
    /\ CallAwaits(i, "delete")
    /\ \/ CallThrows(i, "Failed to clear existing matches") /\ UNCHANGED matches
       \/ /\ matches' = DeleteIn(matches, segmentIds)
          /\ CallBecomes(i, InsertFrom(c, 1))
    /\ UNCHANGED <<fs, tg, pipeVars, segments, http, cs, subs>>

\* computeMatches 278-300: the insert of one segment's rows settles.
InsertSettles(i) ==
    LET c == calls[i]
        segment == ValidSegments(c)[c.i]
        topMatches == TopMatches(Similarities(segment, ValidClips(c)), c.topK)
    IN
    /\ CallAwaits(i, "insert")
    /\ \/ CallThrows(i, "Failed to insert matches for segment") /\ UNCHANGED matches
       \/ /\ matches' = InsertRows(matches, MatchRows(segment.id, topMatches))
          /\ CallBecomes(i, InsertFrom(c, c.i + 1))
    /\ UNCHANGED <<fs, tg, pipeVars, segments, http, cs, subs>>

NextMatch ==
    \/ MatchRequested
    \/ \E i \in DOMAIN calls : SegmentQuerySettles(i)
    \/ \E i \in DOMAIN calls : ClipQuerySettles(i)
    \/ \E i \in DOMAIN calls : SegmentFetchSettles(i)
    \/ \E i \in DOMAIN calls : SegmentEmbedSettles(i)
    \/ \E i \in DOMAIN calls : SegmentStoreSettles(i)
    \/ \E i \in DOMAIN calls : SegmentRefetchSettles(i)
    \/ \E i \in DOMAIN calls : ClipFetchSettles(i)
    \/ \E i \in DOMAIN calls : ClipEmbedSettles(i)
    \/ \E i \in DOMAIN calls : ClipStoreSettles(i)
    \/ \E i \in DOMAIN calls : ClipRefetchSettles(i)
    \/ \E i \in DOMAIN calls : DeleteSettles(i)
    \/ \E i \in DOMAIN calls : InsertSettles(i)

SpecMatch == InitMatch /\ [][NextMatch]_vars

(***************************************************************************)
(* Rematching specification: computeMatches over a project that an earlier *)
(* invocation has matched, some of whose clips have since lost status      *)
(* ready (the error update of an overlapping processClip run has written   *)
(* over the ready row).                                                    *)
(***************************************************************************)
\* A clip that was ready and embedded when the earlier invocation ran, and
\* whose row the error update of another run has written since.
OverwrittenClip ==
    ErrorRow([TaggedClip EXCEPT !.embedding = <<1, 0>>],
             [NoRun EXCEPT !.message = "Failed to download"])

\* A ready clip whose stored embedding has another length than the vectors
\* the embedding model returns now.
LegacyClip == [TaggedClip EXCEPT !.embedding = <<1>>]

\* A ready clip with no description and no tags (a row written outside the
\* pipeline): clipTextForEmbedding gives the empty text.
UntaggedClip == [TaggedClip EXCEPT !.description = "", !.tags = <<>>]

\* The clips of `table` with status `status`, in the orders a query can
\* return them.
ClipOrders(table, status) ==
    LET found == {c \in DOMAIN table : table[c].status = status} IN
    {q \in [1..Cardinality(found) -> found] : \A j, k \in DOMAIN q : q[j] = q[k] => j = k}

\* The match table an invocation with the default topK left, having fetched
\* the clips q for the segments segs.
RowsLeftBy(segs, table, q) ==
    LET fetched == [k \in DOMAIN q |-> [id |-> q[k], embedding |-> table[q[k]].embedding]]
        rows == UNION {MatchRows(s, TopMatches(Similarities([id |-> s,
                                                              embedding |-> segs[s].embedding],
                                                             fetched),
                                               DEFAULT_TOP_K)) : s \in DOMAIN segs}
    IN  [r \in rows |-> 1]

InitRematch ==
    /\ fs = FsIdle /\ tg = TgIdle /\ WorkerIdle /\ ServerIdle /\ cs = CsIdle /\ subs = NoSubmissions
    /\ calls = [i \in 1..1 |-> NoCall]
    /\ \/ \* a project no invocation has matched yet
          /\ clips \in [1..NumMatchClips -> {NewClip, TaggedClip, LegacyClip, UntaggedClip}]
          /\ \E n \in 0..NumSegments :
                segments \in [1..n -> {[content |-> t, embedding |-> NoEmbedding] :
                                          t \in Contents}]
          /\ matches = NoMatches
       \/ \* a matched project: every clip the invocation fetched has been
          \* written over; the other clips were processing and may be ready now
          /\ clips \in [1..NumMatchClips -> {NewClip, TaggedClip, OverwrittenClip}]
          /\ \E c \in DOMAIN clips : clips[c] = OverwrittenClip
          /\ \E n \in 1..NumSegments :
                segments \in [1..n -> {[content |-> "A dog on a beach.", embedding |-> v] :
                                          v \in Vectors}]
          /\ \E q \in ClipOrders(clips, "error") : matches = RowsLeftBy(segments, clips, q)

SpecRematch == InitRematch /\ [][NextMatch]_vars

(***************************************************************************)
(* cosineSimilarity specification: one call for each pair of vectors of    *)
(* small integers, with the arguments in both orders.                      *)
(***************************************************************************)
\* Longest vector passed.
MaxDim == 2

Components == {-1, 0, 1}

CosVectors == UNION {[1..n -> Components] : n \in 0..MaxDim}

InitCos ==
    /\ fs = FsIdle /\ tg = TgIdle /\ PipeIdle /\ subs = NoSubmissions
    /\ \E a, b \in CosVectors : cs = [CsIdle EXCEPT !.pc = "called", !.a = a, !.b = b]

CosineCalled ==
    /\ cs.pc = "called"
    /\ cs' = [cs EXCEPT !.pc = "returned",
                        !.ab = cosineSimilarity(cs.a, cs.b),
                        !.ba = cosineSimilarity(cs.b, cs.a)]
    /\ UNCHANGED <<fs, tg, pipeVars, matchVars, http, subs>>

NextCos == CosineCalled

SpecCos == InitCos /\ [][NextCos]_vars

(***************************************************************************)
(* Script route of the web app (POST, replace mode).  In this              *)
(* specification the script_segments table is the sequence of its rows in  *)
(* insertion order, each row with its position; the worker is not running, *)
(* so the fire-and-forget request to it fails and is ignored.              *)
(***************************************************************************)
\* Longest paragraphs array submitted.
MaxParagraphs == 2

Paragraphs == {" A dog runs. ", "   "}

Scripts == UNION {[1..n -> Paragraphs] : n \in 0..MaxParagraphs}

\* Values of project_id in the body.
ProjectIds == {"", "p1"}

\* The rows an earlier submission left, embedded since by the matching
\* engine.
EarlierScript == <<[content |-> "Dog", embedding |-> <<1, 0>>, position |-> 0]>>

\* Lines 52-58: paragraphs.map((content, index) => ...), index from 0.
segmentsToInsert(paragraphs) ==
    [k \in 1..Len(paragraphs) |->
        [content |-> Trim(paragraphs[k]), embedding |-> NoEmbedding, position |-> k - 1]]

\* Mutant: the delete removes no row.
ClearedSegments_Nothing(table) == table

\* Lines 39-43: delete().eq('project_id', project_id).eq('user_id', user.id)
\* on the table of the one project of the one user.
ClearedSegments(table) == <<>>

SubmissionActive(sub) == sub.pc \in {"project", "delete", "insert"}

Responded(sub, status) == [sub EXCEPT !.pc = "responded", !.status = status]

InitScript ==
    /\ fs = FsIdle /\ tg = TgIdle /\ cs = CsIdle
    /\ clips = [c \in ClipIds |-> NoClip]
    /\ WorkerIdle /\ ServerIdle
    /\ segments = EarlierScript
    /\ matches = NoMatches
    /\ calls = [i \in 1..MaxCalls |-> NoCall]
    /\ subs = NoSubmissions

\* Lines 6-31: a submission arrives; the session and the body are read and
\* checked, and the project is looked up.
ScriptSubmitted ==
    \E j \in DOMAIN subs, user \in BOOLEAN, project_id \in ProjectIds, paragraphs \in Scripts :
        /\ subs[j].pc = "idle"
        /\ \A k \in DOMAIN subs : k < j => subs[k].pc # "idle"
        /\ subs' =
              IF ~user
              THEN [subs EXCEPT ![j] = Responded([@ EXCEPT !.paragraphs = paragraphs], 401)]
              ELSE IF project_id = "" \/ Len(paragraphs) = 0
              THEN [subs EXCEPT ![j] = Responded([@ EXCEPT !.paragraphs = paragraphs], 400)]
              ELSE [k \in DOMAIN subs |->
                       IF k = j
                       THEN [subs[j] EXCEPT
                                !.pc = "project", !.paragraphs = paragraphs,
                                !.overlapped = \E o \in DOMAIN subs : SubmissionActive(subs[o])]
                       ELSE IF SubmissionActive(subs[k])
                       THEN [subs[k] EXCEPT !.overlapped = TRUE]
                       ELSE subs[k]]
        /\ UNCHANGED <<fs, tg, pipeVars, matchVars, http, cs>>

\* Lines 26-43: the project lookup settles; the delete is issued.
ProjectSettles(j) ==
    /\ subs[j].pc = "project"
    /\ \/ subs' = [subs EXCEPT ![j] = Responded(@, 404)]
       \/ subs' = [subs EXCEPT ![j].pc = "delete"]
    /\ UNCHANGED <<fs, tg, pipeVars, matchVars, http, cs>>

\* Lines 39-65: the delete settles (the match rows of the deleted segments
\* go with them); the insert is issued.
SegmentDeleteSettles(j) ==
    /\ subs[j].pc = "delete"
    /\ \/ /\ subs' = [subs EXCEPT ![j] = Responded(@, 500)]
          /\ UNCHANGED <<segments, matches>>
       \/ /\ segments' = ClearedSegments(segments)
          /\ matches' = DeleteIn(matches, DOMAIN segments)
          /\ subs' = [subs EXCEPT ![j].pc = "insert"]
    /\ UNCHANGED <<fs, tg, pipeVars, calls, http, cs>>

\* Lines 60-83: the insert settles; the worker is asked to match and the
\* rows are returned.
SegmentInsertSettles(j) ==
    /\ subs[j].pc = "insert"
    /\ \/ /\ subs' = [subs EXCEPT ![j] = Responded(@, 500)]
          /\ UNCHANGED segments
       \/ /\ segments' = segments \o segmentsToInsert(subs[j].paragraphs)
          /\ subs' = [subs EXCEPT ![j] = Responded(@, 201)]
    /\ UNCHANGED <<fs, tg, pipeVars, matches, calls, http, cs>>

NextScript ==
    \/ ScriptSubmitted
    \/ \E j \in DOMAIN subs : ProjectSettles(j)
    \/ \E j \in DOMAIN subs : SegmentDeleteSettles(j)
    \/ \E j \in DOMAIN subs : SegmentInsertSettles(j)

SpecScript == InitScript /\ [][NextScript]_vars

(***************************************************************************)
(* HTTP server (index.js 75-125).  The handler runs when the headers of a  *)
(* request have arrived; the body arrives in chunks after that.            *)
(***************************************************************************)
\* A value that is not there: a header the request does not carry, a
\* property the object does not have.
Undefined == "undefined"

\* WORKER_API_KEY: unset, or set.
Keys == {"", "s3cret"}

Methods == {"POST", "GET"}

Urls == {"/match", "/other"}

\* Values of the Authorization header.
Authorizations == {Undefined, "Bearer s3cret", "Bearer wrong", "s3cret"}

\* Request bodies, as the chunks they arrive in.
Bodies ==
    { <<>>,
      <<"{}">>,
      <<"null">>,
      <<"{\"project_id\":\"\"}">>,
      <<"{\"project_id\":">>,
      <<"{\"project_id\":", "\"p1\"}">> }

\* `Bearer ${WORKER_API_KEY}`
Bearer(key) == CASE key = "s3cret" -> "Bearer s3cret" [] OTHER -> "Bearer "

\* JSON.parse of the chunks received, concatenated: whether it returns, and
\* the value it returns.
JSONParse(body) ==
    CASE body = <<"{}">> ->
             [ok |-> TRUE, isObject |-> TRUE, project_id |-> Undefined]
      [] body = <<"null">> ->
             [ok |-> TRUE, isObject |-> FALSE, project_id |-> Undefined]
      [] body = <<"{\"project_id\":\"\"}">> ->
             [ok |-> TRUE, isObject |-> TRUE, project_id |-> ""]
      [] body = <<"{\"project_id\":", "\"p1\"}">> ->
             [ok |-> TRUE, isObject |-> TRUE, project_id |-> "p1"]
      [] OTHER ->
             [ok |-> FALSE, isObject |-> FALSE, project_id |-> Undefined]

\* index.js 93: const { project_id } = data ?? {}
ProjectIdOf(data) == IF data.isObject THEN data.project_id ELSE Undefined

\* index.js 95: !project_id
Falsy(value) == value \in {Undefined, ""}

Response(status) == [kind |-> "response", status |-> status]

Started == [kind |-> "processMatches", status |-> 0]

Logged == [kind |-> "log", status |-> 0]

\* res.writeHead(status); res.end(...); return
Respond(req, status) ==
    [req EXCEPT !.st = "done", !.events = Append(@, Response(status))]

\* index.js 79-84: the key check.
Unauthorized(key, authHeader) == key # "" /\ authHeader # Bearer(key)

\* index.js 76-124: the request handler, up to its return.
Handle(key, req) ==
    IF req.url = "/match" /\ req.method = "POST"
    THEN IF Unauthorized(key, req.authorization) THEN Respond(req, 401)
         ELSE [req EXCEPT !.st = "reading"]
    ELSE Respond(req, 404)

\* Mutant: processMatches is called before the response is written.
Accept_StartsFirst(req, i) ==
    [req EXCEPT !.st = "matching", !.call = i,
                !.events = @ \o <<Started, Response(202)>>]

\* index.js 105-110: 202 is written, then processMatches is called, in
\* slot i, and awaited.
Accept(req, i) ==
    [req EXCEPT !.st = "matching", !.call = i,
                !.events = @ \o <<Response(202), Started>>]

\* The handler of no request awaits the invocation of slot i.
Unawaited(i) ==
    \A r \in DOMAIN http.requests :
        ~(http.requests[r].st = "matching" /\ http.requests[r].call = i)

InitServer ==
    /\ fs = FsIdle /\ tg = TgIdle /\ cs = CsIdle /\ subs = NoSubmissions
    /\ clips = [c \in ClipIds |-> NoClip]
    /\ profile = [total_video_seconds |-> 0]
    /\ storage = {}
    /\ worker = [phase |-> "interval", apiKey |-> FALSE, pollError |-> FALSE]
    /\ ticks = [t \in TickIds |-> NoTick]
    /\ dirs = {}
    /\ segments = <<>>
    /\ matches = NoMatches
    /\ calls = [i \in 1..MaxRequests |-> NoCall]
    /\ \E key \in Keys :
          http = [key |-> key, requests |-> [r \in 1..MaxRequests |-> NoRequest]]

\* index.js 75-87 and 121-124: a request arrives and the handler runs.
RequestArrives ==
    \E r \in DOMAIN http.requests, method \in Methods, url \in Urls,
       authHeader \in Authorizations, chunks \in Bodies :
        /\ Listening
        /\ http.requests[r].st = "none"
        /\ \A q \in DOMAIN http.requests : q < r => http.requests[q].st # "none"
        /\ http' = [http EXCEPT !.requests[r] =
                       Handle(http.key,
                              [NoRequest EXCEPT !.method = method, !.url = url,
                                                !.authorization = authHeader,
                                                !.pending = chunks])]
        /\ UNCHANGED <<fs, tg, pipeVars, matchVars, cs, subs>>

\* index.js 89: body += chunk
DataArrives(r) ==
    LET req == http.requests[r] IN
    /\ req.st = "reading"
    /\ req.pending # <<>>
    /\ http' = [http EXCEPT !.requests[r] =
                   [req EXCEPT !.body = Append(@, Head(req.pending)),
                               !.pending = Tail(@)]]
    /\ UNCHANGED <<fs, tg, pipeVars, matchVars, cs, subs>>

\* index.js 90-119: the body has ended.
BodyEnds(r) ==
    LET req == http.requests[r]
        data == JSONParse(req.body)
    IN
    /\ req.st = "reading"
    /\ req.pending = <<>>
    /\ IF ~data.ok \/ Falsy(ProjectIdOf(data))
       THEN /\ http' = [http EXCEPT !.requests[r] = Respond(req, 400)]
            /\ UNCHANGED calls
       ELSE \E i \in DOMAIN calls :
               /\ ~CallActive(calls[i]) /\ Unawaited(i)
               /\ \A j \in DOMAIN calls : j < i => ~(~CallActive(calls[j]) /\ Unawaited(j))
               /\ http' = [http EXCEPT !.requests[r] = Accept(req, i)]
               /\ calls' = StartedCalls(i, DEFAULT_TOP_K)
    /\ UNCHANGED <<fs, tg, pipeVars, segments, matches, cs, subs>>

\* Mutant: the error of processMatches reaches the catch block of the
\* request handler, which writes a 400 response.
MatchEnds_RespondsOnFailure(r) ==
    LET req == http.requests[r] IN
    /\ req.st = "matching"
    /\ ~CallActive(calls[req.call])
    /\ http' = [http EXCEPT !.requests[r] =
                   [req EXCEPT !.st = "done",
                               !.events = IF calls[req.call].pc = "thrown"
                                          THEN @ \o <<Logged, Response(400)>> ELSE @]]
    /\ UNCHANGED <<fs, tg, pipeVars, matchVars, cs, subs>>

\* index.js 109-113: processMatches has settled; if it threw, the error is
\* logged.
MatchEnds(r) ==
    LET req == http.requests[r] IN
    /\ req.st = "matching"
    /\ ~CallActive(calls[req.call])
    /\ http' = [http EXCEPT !.requests[r] =
                   [req EXCEPT !.st = "done",
                               !.events = IF calls[req.call].pc = "thrown"
                                          THEN Append(@, Logged) ELSE @]]
    /\ UNCHANGED <<fs, tg, pipeVars, matchVars, cs, subs>>

NextServer ==
    \/ RequestArrives
    \/ \E r \in DOMAIN http.requests : DataArrives(r)
    \/ \E r \in DOMAIN http.requests : BodyEnds(r)
    \/ \E r \in DOMAIN http.requests : MatchEnds(r)
    \/ \E i \in DOMAIN calls : SegmentQuerySettles(i)
    \/ \E i \in DOMAIN calls : ClipQuerySettles(i)

SpecServer == InitServer /\ [][NextServer]_vars

(***************************************************************************)
(* Tagging retry controller specification.                                 *)
(***************************************************************************)
\* Largest frame index of the tagged clips.
MaxTagFrames == 2

InitTag ==
    /\ fs = FsIdle /\ cs = CsIdle /\ subs = NoSubmissions
    /\ PipeIdle
    /\ \E apiKey \in BOOLEAN, present \in SUBSET (1..MaxTagFrames) :
          tg = TagEntered(apiKey, present, Cardinality(present))

TagStart ==
    /\ tg.pc = "called"
    /\ tg' = TagBegin(tg)
    /\ UNCHANGED <<fs, pipeVars, matchVars, http, cs, subs>>

TagCallSettles ==
    /\ tg.pc = "call"
    /\ \E outcome \in TagCallOutcomes : tg' = TagAfterCall(tg, outcome)
    /\ UNCHANGED <<fs, pipeVars, matchVars, http, cs, subs>>

TagSleepDone ==
    /\ tg.pc = "sleep"
    /\ tg' = TagAfterSleep(tg)
    /\ UNCHANGED <<fs, pipeVars, matchVars, http, cs, subs>>

NextTag == TagStart \/ TagCallSettles \/ TagSleepDone

SpecTag == InitTag /\ [][NextTag]_vars

\* The awaited model call and the timer of the sleep always settle.
FairSpecTag == SpecTag /\ WF_vars(NextTag)

(***************************************************************************)
(* Frame sampler specification: the inputs are a frame count and the set   *)
(* of frame files on disk (all of 1..frameCount, or all but one).          *)
(***************************************************************************)
FsInputs ==
    {[pc |-> "called", frameCount |-> n, present |-> (1..n) \ {m}, selected |-> <<>>] :
        n \in 0..MaxFrameCount, m \in 0..MaxFrameCount}

InitSel == fs \in FsInputs /\ tg = TgIdle /\ cs = CsIdle /\ subs = NoSubmissions /\ PipeIdle

SelectFrames ==
    /\ fs.pc = "called"
    /\ fs' = [fs EXCEPT !.pc = "returned",
                        !.selected = selectRepresentativeFrames(fs.present, fs.frameCount)]
    /\ UNCHANGED <<tg, pipeVars, matchVars, http, cs, subs>>

NextSel == SelectFrames

SpecSel == InitSel /\ [][NextSel]_vars

(***************************************************************************)
(* Properties of the frame sampler                                         *)
(***************************************************************************)
CountIn(seq, x) == Cardinality({k \in 1..Len(seq) : seq[k] = x})

FsAllPresent == fs.pc = "returned" /\ fs.frameCount >= 1 /\ fs.present = 1..fs.frameCount

\* C6: for every frame count N >= 1 with frames 1..N all on disk,
\* selectRepresentativeFrames returns at most 20 frames and the returned list
\* holds frame N exactly once.
C6_AtMostCapWithLastOnce ==
    FsAllPresent =>
        /\ Len(fs.selected) <= 20
        /\ CountIn(fs.selected, FramePath(fs.frameCount)) = 1

(***************************************************************************)
(* Properties of the tagging retry controller                              *)
(***************************************************************************)
TgCalls == {k \in 1..Len(tg.log) : tg.log[k][1] = "call"}

TgSleeps == {k \in 1..Len(tg.log) : tg.log[k][1] = "sleep"}

\* The auth/permission class, as the retry policy states it.
AuthClassified(err) ==
    \/ err.status \in {401, 403}
    \/ err.message \in {"401 invalid_api_key: bad key", "permission_error: model not allowed",
                        "Could not parse Claude response as JSON: Sorry: permission_error"}

\* C7: an auth/permission failure on any attempt ends tagClip at once: the
\* failed call is the last entry of the log (no sleep, no further call), the
\* number of calls is the number of that attempt, and the auth error is raised.
C7_AuthFailsImmediately ==
    (tg.lastError.attempt >= 1 /\ AuthClassified(tg.lastError)) =>
        /\ tg.pc = "thrown"
        /\ tg.log[Len(tg.log)] = <<"call", tg.lastError.attempt>>
        /\ Cardinality(TgCalls) = tg.lastError.attempt
        /\ Cardinality(TgSleeps) = tg.lastError.attempt - 1

\* An auth failure on the second attempt, after one retried failure.
C7_Witness ==
    /\ tg.pc = "thrown"
    /\ tg.lastError.status = 403
    /\ tg.lastError.attempt = 2
    /\ tg.log = <<<<"call", 1>>, <<"sleep", 2000>>, <<"call", 2>>>>

BackoffLog ==
    <<<<"call", 1>>, <<"sleep", 2000>>, <<"call", 2>>, <<"sleep", 4000>>, <<"call", 3>>>>

\* C8: after a non-auth failure on attempt n < 3 tagClip sleeps 2000 * 2^(n-1)
\* ms and then makes attempt n + 1: the calls and sleeps made are always a
\* prefix of call 1, sleep 2000, call 2, sleep 4000, call 3; a failed attempt
\* n < 3 with a non-auth error has the sleep at position 2n; nothing follows a
\* success or the third attempt.
C8_BackoffSchedule ==
    /\ Len(tg.log) <= Len(BackoffLog)
    /\ \A k \in 1..Len(tg.log) : tg.log[k] = BackoffLog[k]
    /\ (tg.lastError.attempt \in 1..2 /\ ~AuthClassified(tg.lastError)) =>
          /\ Len(tg.log) >= 2 * tg.lastError.attempt
          /\ tg.log[2 * tg.lastError.attempt][1] = "sleep"
          /\ tg.pc # "thrown"
    /\ tg.pc = "sleep" => tg.log[Len(tg.log)][1] = "sleep"
    /\ tg.pc \in {"call", "returned"} => tg.log[Len(tg.log)] = <<"call", tg.attempt>>

\* Failures on attempts 1 and 2, success on attempt 3.
C8_Witness ==
    /\ tg.pc = "returned"
    /\ tg.log = BackoffLog
    /\ tg.lastError.attempt = 2

\* C9: every tagClip invocation terminates, after at most 3 model calls; when
\* all three attempts failed tagClip raises the error of the third attempt.
C9_TerminatesWithLastError ==
    /\ <>(tg.pc \in {"returned", "thrown"})
    /\ [](/\ Cardinality(TgCalls) <= 3
          /\ (tg.pc = "thrown" /\ Cardinality(TgCalls) = 3) => tg.lastError.attempt = 3)

\* Three failed attempts with non-auth errors.
C9_Witness ==
    /\ tg.pc = "thrown"
    /\ Cardinality(TgCalls) = 3
    /\ ~AuthClassified(tg.lastError)
    /\ tg.lastError.message = "rate_limit_error"

(***************************************************************************)
(* Properties of the job poller and the clip pipeline                      *)
(***************************************************************************)
Running(t) == ticks[t].st = "running"

\* The step in which the processClip run of tick t returns or throws.
RunEnds(t) ==
    /\ Running(t)
    /\ ticks[t].run.pc \in {"addSeconds", "errorUpdate"}
    /\ ticks'[t] # ticks[t]

\* Two poll ticks each have a processClip run in progress for the same clip.
TwoRunsOneClip ==
    \E t, u \in DOMAIN ticks :
        t # u /\ Running(t) /\ Running(u) /\ ticks[t].run.clip = ticks[u].run.clip

\* C1: ready and error are terminal: the status of a clip changes only from
\* processing to ready or from processing to error.
C1_TerminalStatuses ==
    [][\A c \in DOMAIN clips :
          (clips[c].status # "absent" /\ clips'[c].status # clips[c].status) =>
              /\ clips[c].status = "processing"
              /\ clips'[c].status \in {"ready", "error"}]_vars

\* C2: every processClip run ends with the clip in status ready or error, and
\* a run in which a step failed ends with the clip in status error.
C2_RunEndsTerminal ==
    [][\A t \in DOMAIN ticks :
          RunEnds(t) =>
              LET c == ticks[t].run.clip IN
              /\ clips'[c].status \in {"ready", "error"}
              /\ ticks[t].run.pc = "errorUpdate" => clips'[c].status = "error"]_vars

\* C3: at any time at most one processClip run is in progress for a clip.
C3_OneRunPerClip == ~TwoRunsOneClip

\* C3, amended: a discovery query returns only clips whose status is
\* processing when it runs, and no timer tick is started before the awaited
\* first poll() has returned, so two runs for one clip are in progress only
\* under overlapping timer ticks.
C3_QueriedWhileProcessing ==
    [][/\ \A t \in DOMAIN ticks :
             (ticks[t].st = "query" /\ ticks'[t].st = "running") =>
                 \A k \in 1..Len(ticks'[t].batch) :
                     clips[ticks'[t].batch[k]].status = "processing"
       /\ worker'.phase = "firstPoll" =>
             \A t \in DOMAIN ticks : t # 1 => ticks'[t].st = "idle"
       /\ TwoRunsOneClip' => worker'.phase = "interval"]_vars

\* Two timer ticks each run processClip for the same clip.
C3_Witness == TwoRunsOneClip /\ worker.phase = "interval"

\* C4: a clip whose duration added to the user's processed seconds exceeds
\* 18000 s fails at the cap check, before any frame extraction, thumbnail
\* extraction or upload, and its record ends with status error and a
\* non-empty error_message; a sum equal to the cap is admitted.
C4_CapExceededFails ==
    [][\A t \in DOMAIN ticks :
          LET run == ticks[t].run
              sum == profile.total_video_seconds + run.duration
          IN
          /\ (Awaits(t, "capCheck") /\ ticks'[t] # ticks[t] /\ sum > 18000) =>
                /\ ticks'[t].run.pc = "errorUpdate"
                /\ ticks'[t].run.message # ""
                /\ Range(ticks'[t].run.trace) \cap
                       {"extract", "thumbnail", "frameUpload", "thumbnailUpload"} = {}
          /\ (Awaits(t, "capCheck") /\ ticks'[t] # ticks[t] /\ sum = 18000) =>
                ticks'[t].run.pc = "extract"
          /\ (RunEnds(t) /\ run.message = "Video would exceed 5-hour duration cap") =>
                /\ clips'[run.clip].status = "error"
                /\ clips'[run.clip].error_message # ""]_vars

\* The run of tick t failed in tagClip.
TagFailed(run) ==
    /\ run.pc = "errorUpdate"
    /\ Len(run.trace) >= 2
    /\ run.trace[Len(run.trace) - 1] = "tag"

\* C5: a run in which tagClip fails never writes ready: the clip ends with
\* status error and the message of tagClip's error; a clip with status ready
\* has a non-empty description.
C5_TagFailureIsError ==
    [][/\ \A t \in DOMAIN ticks :
             (RunEnds(t) /\ TagFailed(ticks[t].run)) =>
                 /\ clips'[ticks[t].run.clip].status = "error"
                 /\ clips'[ticks[t].run.clip].error_message = ticks[t].run.message
       /\ \A c \in DOMAIN clips :
             clips'[c].status = "ready" => clips'[c].description # ""]_vars

(***************************************************************************)
(* Properties of the matching engine                                       *)
(***************************************************************************)
\* The match rows of segment s, and how many there are.
RowsOf(table, s) == {r \in DOMAIN table : r.segment_id = s}

RowCount(table, s) ==
    LET rows == RowsOf(table, s)
        RECURSIVE Sum(_)
        Sum(R) == IF R = {} THEN 0
                  ELSE LET r == CHOOSE x \in R : TRUE IN table[r] + Sum(R \ {r})
    IN  Sum(rows)

\* Segment s has exactly k rows, ranked 1..k, with scores that do not
\* increase with the rank.
RankedRows(table, s, k) ==
    LET rows == RowsOf(table, s) IN
    /\ RowCount(table, s) = k
    /\ \A n \in 1..k : \E r \in rows : r.rank = n
    /\ \A r \in rows : r.rank \in 1..k
    /\ \A r, q \in rows : r.rank < q.rank => ~ScoreLess(r.similarity_score, q.similarity_score)

ReadyClipsWithEmbedding(table) ==
    {c \in DOMAIN table : table[c].status = "ready" /\ HasEmbedding(table[c])}

RepeatReturns(i) ==
    /\ CallActive(calls[i]) /\ calls[i].repeat /\ ~calls[i].overlapped
    /\ calls'[i].pc = "returned"

\* C11: matching is idempotent: a second computeMatches in sequence, with
\* segments, clips and embeddings unchanged, leaves the same set of
\* (segment, clip, rank, score) rows and the same row count as the first.
C11_Idempotent ==
    [][\A i \in DOMAIN calls : RepeatReturns(i) => matches' = calls[i].before]_vars

SameScore(x, y) == ~ScoreLess(x, y) /\ ~ScoreLess(y, x)

\* The ready clips with an embedding score pairwise differently against
\* segment s.
DistinctScores(s) ==
    \A c, d \in ReadyClipsWithEmbedding(clips) :
        c # d => ~SameScore(cosineSimilarity(segments[s].embedding, clips[c].embedding),
                            cosineSimilarity(segments[s].embedding, clips[d].embedding))

SameRanksAndScores(old, new, s) ==
    /\ RowCount(new, s) = RowCount(old, s)
    /\ \A r \in RowsOf(new, s) :
          new[r] = 1 /\ \E q \in RowsOf(old, s) :
                            q.rank = r.rank /\ SameScore(q.similarity_score, r.similarity_score)

\* C11, amended: the second invocation leaves, for every segment, as many
\* rows as the first, one per rank, with the same score at each rank; the
\* clip at each rank is the same too when no two clips score alike against
\* the segment.
C11_SameRanksAndScores ==
    [][\A i \in DOMAIN calls :
          RepeatReturns(i) =>
              \A s \in DOMAIN segments :
                  /\ SameRanksAndScores(calls[i].before, matches', s)
                  /\ DistinctScores(s) => RowsOf(matches', s) = RowsOf(calls[i].before, s)]_vars

\* A repeated invocation with topK = 1 has returned; two ready clips score
\* alike against segment 1, which has its one row.
C11_Witness ==
    /\ calls[1].pc = "returned" /\ calls[1].repeat /\ calls[1].topK = 1
    /\ \A i \in DOMAIN calls : i # 1 => calls[i].pc = "idle"
    /\ Cardinality(ReadyClipsWithEmbedding(clips)) = 2
    /\ HasEmbedding(segments[1]) /\ ~DistinctScores(1)
    /\ RowCount(matches, 1) = 1

\* The segment whose embedding invocation i is fetching has empty content
\* and no embedding.
FetchesEmptySegment(i) ==
    /\ CallAwaits(i, "segmentFetch")
    /\ LET s == calls[i].segments[calls[i].i].id IN
       IsEmptyText(segments[s].content) /\ ~HasEmbedding(segments[s])
    /\ calls'[i] # calls[i]

\* C12: a segment with empty content is skipped: no embedding-model call is
\* made for it, no match row references it, and the invocation does not fail
\* on it.
C12_EmptySegmentSkipped ==
    [][/\ \A i \in DOMAIN calls :
             FetchesEmptySegment(i) =>
                 /\ calls'[i].pc # "segmentEmbed"
                 /\ calls'[i].message # "Cannot generate embedding for empty text"
       /\ \A r \in DOMAIN matches' : ~IsEmptyText(segments'[r.segment_id].content)]_vars

(***************************************************************************)
(* Properties of a poll tick with a batch of several clips                 *)
(***************************************************************************)
\* The run of tick t throws in this step.
RunThrows(t) == RunEnds(t) /\ ticks[t].run.pc = "errorUpdate"

\* C13: when processClip fails for a clip of the batch, processClip is
\* started for the next clip of the batch (and so for every later one), the
\* interval timer is set or stays set, and no step of a run writes the
\* record of a clip other than its own.
C13_FailureIsContained ==
    /\ []((worker.phase = "interval" /\ \E t \in DOMAIN ticks : ticks[t].st = "idle")
              => ENABLED TimerFires)
    /\ [][\A t \in DOMAIN ticks :
             /\ RunThrows(t) =>
                   /\ IF ticks[t].idx < Len(ticks[t].batch)
                      THEN /\ ticks'[t].st = "running"
                           /\ ticks'[t].batch = ticks[t].batch
                           /\ ticks'[t].idx = ticks[t].idx + 1
                           /\ ticks'[t].run.clip = ticks[t].batch[ticks[t].idx + 1]
                           /\ ticks'[t].run.pc = "download"
                           /\ worker'.phase = worker.phase
                      ELSE ticks'[t].st = "idle" /\ worker'.phase = "interval"
             /\ (Running(t) /\ ticks'[t] # ticks[t]) =>
                   \A c \in DOMAIN clips : c # ticks[t].run.clip => clips'[c] = clips[c]]_vars

\* The run of the first clip of a batch of two has failed and left it in
\* status error; the run of the second clip is in progress.
C13_Witness ==
    \E t \in DOMAIN ticks :
        /\ Running(t) /\ Len(ticks[t].batch) = 2 /\ ticks[t].idx = 2
        /\ clips[ticks[t].batch[1]].status = "error"
        /\ ticks[t].run.clip = ticks[t].batch[2]

\* The clips with status processing.
Processing == {c \in DOMAIN clips : clips[c].status = "processing"}

C15_WorkDirDeleted ==
    [][\A t \in DOMAIN ticks :
          RunEnds(t) =>
              \/ ticks[t].run.workDir \notin dirs'
              \/ /\ ticks'[t].st = "running"
                 /\ ticks'[t].run.workDir = ticks[t].run.workDir
                 /\ ticks'[t].run.pc = "download"]_vars

\* A run has uploaded an object, then failed, and its error update failed
\* too: the clip is still processing, no run is in progress and no working
\* directory is left.
C15_Witness ==
    /\ \A t \in DOMAIN ticks : ticks[t].st = "idle"
    /\ storage # {} /\ dirs = {}
    /\ \E c \in DOMAIN clips : clips[c].status = "processing"

\* The step in which add_video_seconds settles with an error for the run of
\* tick t: the counter is not incremented.
AddSecondsFails(t) ==
    /\ Awaits(t, "addSeconds")
    /\ ticks'[t] # ticks[t]
    /\ profile' = profile

\* C16: when add_video_seconds fails after the ready update succeeded,
\* processClip returns normally (poll() goes on as after any returned run,
\* no error update is issued) and the clip keeps status ready with no
\* error_message written.
C16_CounterFailureNotPropagated ==
    [][\A t \in DOMAIN ticks :
          AddSecondsFails(t) =>
              /\ \E d \in ClockReads : ticks'[t] = TickAfterRun(ticks[t], d)
              /\ ~(ticks'[t].st = "running" /\ ticks'[t].run.pc = "errorUpdate")
              /\ clips' = clips
              /\ clips'[ticks[t].run.clip].status = "ready"
              /\ clips'[ticks[t].run.clip].error_message = ""]_vars

\* A clip is ready, its run is over and the usage counter was never
\* incremented: the increment for it failed.
C16_Witness ==
    /\ profile.total_video_seconds = InitialSeconds
    /\ \A t \in DOMAIN ticks : ticks[t].st = "idle"
    /\ \E c \in DOMAIN clips :
          clips[c].status = "ready" /\ clips[c].error_message = ""

\* C17: in every reachable state a clip with status ready has
\* duration_seconds and frames_extracted set, to the values of the run whose
\* ready update wrote the row, and a clip with status error has
\* error_message set.
C17_StatusFieldsSet ==
    /\ [](\A c \in DOMAIN clips :
             /\ clips[c].status = "ready" =>
                   clips[c].duration_seconds # 0 /\ clips[c].frames_extracted # 0
             /\ clips[c].status = "error" => clips[c].error_message # "")
    /\ [][\A c \in DOMAIN clips :
             (clips'[c] # clips[c] /\ clips'[c].status = "ready") =>
                 \E t \in DOMAIN ticks :
                     /\ Awaits(t, "readyUpdate")
                     /\ ticks[t].run.clip = c
                     /\ clips'[c].duration_seconds = ticks[t].run.duration
                     /\ clips'[c].frames_extracted = ticks[t].run.frameCount]_vars

\* A run has made a clip ready and another run for the same clip has then
\* written an error: the row has status error, an error message and the
\* duration and frame count of the first run.
C17_Witness ==
    \E c \in DOMAIN clips :
        /\ clips[c].status = "error"
        /\ clips[c].error_message # ""
        /\ clips[c].duration_seconds \in Durations
        /\ clips[c].frames_extracted > 0


\* The project has no segment or no clip with status ready.
NothingToMatch ==
    \/ segments = <<>>
    \/ \A c \in DOMAIN clips : clips[c].status # "ready"

\* C18: when the project has no segments or no ready clips, computeMatches
\* returns once both of its queries have been answered, it never awaits
\* the embedding model (nor an embedding fetch, the delete or an insert),
\* and no step changes the matches, clips or script_segments table: match
\* rows that exist stay as they are.
C18_NothingToMatchIsNoOp ==
    /\ [](NothingToMatch =>
             \A i \in DOMAIN calls :
                 /\ calls[i].pc \in {"idle", "segmentQuery", "clipQuery", "returned", "thrown"}
                 /\ calls[i].pc = "thrown" =>
                       calls[i].message \in {"Failed to fetch segments", "Failed to fetch clips"})
    /\ [][NothingToMatch =>
             /\ UNCHANGED <<matches, clips, segments>>
             /\ \A i \in DOMAIN calls :
                   (CallAwaits(i, "clipQuery") /\ calls'[i].pc \notin {"clipQuery", "thrown"})
                       => calls'[i].pc = "returned"]_vars

\* An invocation has returned in a project with segments and no ready clip,
\* and the match rows of the earlier invocation are all there.
C18_Witness ==
    /\ NothingToMatch
    /\ segments # <<>>
    /\ matches # NoMatches
    /\ \A s \in DOMAIN segments : RowCount(matches, s) > 0
    /\ calls[1].pc = "returned"

\* The match rows a step inserts: new rows and new copies of rows.
InsertedRows ==
    {r \in DOMAIN matches' : r \notin DOMAIN matches \/ matches'[r] > matches[r]}

\* C19: every row an invocation inserts references a segment of the project
\* and a clip the invocation fetched as ready, both with an embedding, and
\* the rows of one insert (the rows of one segment) reference pairwise
\* distinct clips.
C19_InsertedRowsValid ==
    [][InsertedRows # {} =>
          \E i \in DOMAIN calls :
              /\ CallAwaits(i, "insert")
              /\ \A r \in InsertedRows :
                    /\ r.segment_id \in DOMAIN segments
                    /\ HasEmbedding(segments[r.segment_id])
                    /\ r.segment_id = ValidSegments(calls[i])[calls[i].i].id
                    /\ \E k \in DOMAIN calls[i].clips :
                          /\ calls[i].clips[k].id = r.clip_id
                          /\ HasEmbedding(calls[i].clips[k])
                    /\ r.clip_id \in DOMAIN clips
                    /\ clips[r.clip_id].status = "ready"
                    /\ HasEmbedding(clips[r.clip_id])
                    /\ matches'[r] = (IF r \in DOMAIN matches THEN matches[r] ELSE 0) + 1
              /\ \A r, q \in InsertedRows : r # q => r.clip_id # q.clip_id]_vars

\* An invocation has inserted two rows for segment 1, one for each of the
\* two ready clips, and returned.
C19_Witness ==
    /\ calls[1].pc = "returned"
    /\ Cardinality(ReadyClipsWithEmbedding(clips)) = 2
    /\ RowCount(matches, 1) = 2
    /\ {r.clip_id : r \in RowsOf(matches, 1)} = DOMAIN clips

(***************************************************************************)
(* Properties of the HTTP server                                           *)
(***************************************************************************)
IsResponse(event) == event.kind = "response"

\* The responses written for a request, in order.
Responses(req) == SelectSeq(req.events, IsResponse)

\* The status the request is to be answered with: 404 unless it is POST
\* /match; else 401 if a key is configured and the Authorization header is
\* not Bearer <key>; else 400 if the body sent is not valid JSON or has no
\* project_id (none, or an empty one); else 202.
ExpectedStatus(key, req) ==
    LET data == JSONParse(req.body \o req.pending) IN
    IF ~(req.method = "POST" /\ req.url = "/match") THEN 404
    ELSE IF key = "s3cret" /\ req.authorization # "Bearer s3cret" THEN 401
    ELSE IF ~data.ok THEN 400
    ELSE IF ~data.isObject \/ data.project_id \in {Undefined, ""} THEN 400
    ELSE 202

\* C20: a request never has more than one response, and has exactly one
\* once its handler has run to a return or to the call of processMatches,
\* with the status the rules give (404, 401, 400, else 202).  processMatches
\* is started only for a request answered 202, once, and right after the
\* 202 was written.
C20_OneResponse ==
    \A r \in DOMAIN http.requests :
        LET req == http.requests[r]
            res == Responses(req)
        IN
        /\ Len(res) <= 1
        /\ req.st \in {"none", "reading"} => req.events = <<>>
        /\ req.st \in {"matching", "done"} =>
              Len(res) = 1 /\ res[1].status = ExpectedStatus(http.key, req)
        /\ \A k \in DOMAIN req.events :
              req.events[k] = Started => k = 2 /\ req.events[1] = Response(202)
        /\ (res # <<>> /\ res[1].status = 202) =>
              Len(req.events) >= 2 /\ req.events[2] = Started

\* One request was answered 202 and its processMatches threw, which was
\* logged; another was answered 401.
C20_Witness ==
    /\ http.requests[1].st = "done"
    /\ http.requests[1].events = <<Response(202), Started, Logged>>
    /\ http.requests[2].st = "done"
    /\ http.requests[2].events = <<Response(401)>>

\* The k-th valid segment of invocation c and one of its valid clips have
\* embeddings of different lengths.
LengthMismatch(c, k) ==
    \E j \in 1..Len(ValidClips(c)) :
        Len(ValidSegments(c)[k].embedding) # Len(ValidClips(c)[j].embedding)

\* C21: cosineSimilarity throws for vectors of different lengths and
\* computeMatches does not skip the pair: when the scores of a segment that
\* has such a pair are computed (after the delete, or after the insert of
\* the segment before), the invocation fails with that error, and no row is
\* ever inserted for a segment and a clip with embeddings of different
\* lengths.
C21_LengthMismatchFails ==
    [][/\ \A i \in DOMAIN calls :
             LET c == calls[i]
                 k == IF c.pc = "delete" THEN 1 ELSE c.i + 1
             IN  (/\ c.pc \in {"delete", "insert"}
                  /\ calls'[i] # c
                  /\ calls'[i].message \notin {"Failed to clear existing matches",
                                                "Failed to insert matches for segment"}
                  /\ k <= Len(ValidSegments(c))
                  /\ LengthMismatch(c, k))
                 => /\ calls'[i].pc = "thrown"
                    /\ calls'[i].message = "Vectors must have same length"
       /\ \A r \in InsertedRows :
             Len(segments[r.segment_id].embedding) = Len(clips[r.clip_id].embedding)]_vars

\* An invocation has failed on a pair of vectors of different lengths.
C21_Witness ==
    /\ calls[1].pc = "thrown"
    /\ calls[1].message = "Vectors must have same length"
    /\ \E s \in DOMAIN segments, c \in DOMAIN clips :
          /\ HasEmbedding(segments[s]) /\ HasEmbedding(clips[c])
          /\ clips[c].status = "ready"
          /\ Len(segments[s].embedding) # Len(clips[c].embedding)

(***************************************************************************)
(* Properties of cosineSimilarity                                          *)
(***************************************************************************)
\* The sum of the squares of the components: the square of the norm.
SquaredNorm(v) == LET RECURSIVE Sum(_)
                      Sum(k) == IF k = 0 THEN 0 ELSE v[k] * v[k] + Sum(k - 1)
                  IN  Sum(Len(v))

\* C22: for vectors a, b of equal length cosineSimilarity(a, b) and
\* cosineSimilarity(b, a) both return, the same value, and the value is
\* exactly 0 (a number, no division by zero) when a or b has norm zero.
C22_SymmetricZeroOnZeroNorm ==
    (cs.pc = "returned" /\ Len(cs.a) = Len(cs.b)) =>
        /\ cs.ab.ok /\ cs.ba.ok
        /\ cs.ab = cs.ba
        /\ cs.ab.den > 0
        /\ (SquaredNorm(cs.a) = 0 \/ SquaredNorm(cs.b) = 0) =>
              cs.ab.num = 0 /\ cs.ab.den = 1

\* The call has returned 0 for a zero vector and a vector that is not zero.
C22_Witness ==
    /\ cs.pc = "returned"
    /\ cs.a = <<0, 0>> /\ cs.b = <<1, -1>>
    /\ cs.ab.ok /\ cs.ab.num = 0 /\ cs.ba = cs.ab

\* The run's frame selection is empty: no frame was counted, or none of the
\* files it would select is on disk.
NothingSelected(run) == Len(selectRepresentativeFrames(run.frames, run.frameCount)) = 0

\* tagClip that selects no frame makes no model call and does not sleep:
\* it has thrown with an empty log.
TagNoFramesNoCall ==
    (tg.pc # "called" /\ Len(selectRepresentativeFrames(tg.present, tg.frameCount)) = 0) =>
        tg.pc = "thrown" /\ tg.log = <<>>

\* C23: when the frame selection of a run is empty tagClip fails at once
\* (the run goes to its catch block with the error of tagClip's entry
\* checks, which no model call precedes), and the run ends with the clip in
\* status error.
C23_NoFramesIsError ==
    [][\A t \in DOMAIN ticks :
          LET run == ticks[t].run IN
          /\ (Awaits(t, "tag") /\ NothingSelected(run) /\ ticks'[t] # ticks[t]) =>
                /\ ticks'[t].run.pc = "errorUpdate"
                /\ ticks'[t].run.message \in
                      {"No frames available for tagging",
                       "ANTHROPIC_API_KEY environment variable is not set"}
          /\ (RunEnds(t) /\ run.message = "No frames available for tagging") =>
                clips'[run.clip].status = "error"]_vars

\* The match rows a step removes.
RemovedRows ==
    {r \in DOMAIN matches : r \notin DOMAIN matches' \/ matches'[r] < matches[r]}

\* C24: in one invocation every deletion of old rows comes before the first
\* insertion: rows are removed only by the delete the invocation awaits
\* before its inserts, that delete leaves no row for any of the
\* invocation's segments, and an invocation that awaits an insert never
\* deletes again.
C24_DeleteBeforeInsert ==
    [][/\ RemovedRows # {} =>
             \E i \in DOMAIN calls :
                 /\ calls[i].pc = "delete"
                 /\ calls'[i].pc \in {"insert", "returned", "thrown"}
                 /\ \A k \in 1..Len(ValidSegments(calls[i])) :
                       RowCount(matches', ValidSegments(calls[i])[k].id) = 0
       /\ InsertedRows # {} => RemovedRows = {}
       /\ \A i \in DOMAIN calls :
             calls[i].pc = "insert" =>
                 \/ calls'[i].pc \in {"insert", "returned", "thrown"}
                 \/ calls'[i] = calls[i]]_vars

\* A repeated invocation awaits its first insert: segment 1, which had rows
\* when the invocation began, has none now.
C24_Witness ==
    \E i \in DOMAIN calls :
        /\ calls[i].repeat /\ ~calls[i].overlapped
        /\ calls[i].pc = "insert" /\ calls[i].i = 1
        /\ RowCount(calls[i].before, 1) > 0
        /\ RowCount(matches, 1) = 0

(***************************************************************************)
(* Properties of the script route                                          *)
(***************************************************************************)
\* Submission j is answered 201 in this step.
SubmissionSucceeds(j) == subs[j].pc = "insert" /\ subs'[j].status = 201

\* C25: when a submission of n paragraphs that no other submission
\* overlapped succeeds, the segments of the project are exactly n rows, the
\* k-th of them with position k - 1 and the k-th paragraph (trimmed) as its
\* content: no row of an earlier submission is left.
C25_ScriptReplaced ==
    [][\A j \in DOMAIN subs :
          (SubmissionSucceeds(j) /\ ~subs[j].overlapped) =>
              /\ Len(segments') = Len(subs[j].paragraphs)
              /\ \A k \in 1..Len(segments') :
                    /\ segments'[k].position = k - 1
                    /\ segments'[k].content = Trim(subs[j].paragraphs[k])]_vars

\* Without the hypothesis it does not hold: two overlapping submissions can
\* both delete before either inserts.
OverlappedSubmissionReplaces ==
    [][\A j \in DOMAIN subs :
          SubmissionSucceeds(j) => Len(segments') = Len(subs[j].paragraphs)]_vars

\* A submission of two paragraphs that nothing overlapped has succeeded:
\* the table holds its two rows and the row of the earlier script is gone.
C25_Witness ==
    /\ subs[1].status = 201 /\ ~subs[1].overlapped
    /\ subs[2].pc = "idle"
    /\ Len(subs[1].paragraphs) = 2
    /\ segments = segmentsToInsert(subs[1].paragraphs)
    /\ \A k \in DOMAIN segments : segments[k] \notin Range(EarlierScript)

(***************************************************************************)
(* Properties of the worker's startup                                      *)
(***************************************************************************)
\* No poll() has been called, no run started, nothing written by the worker.
NothingStarted ==
    /\ \A t \in DOMAIN ticks : ticks[t] = NoTick
    /\ \A c \in DOMAIN clips : clips[c].status \in {"absent", "processing"}
    /\ storage = {} /\ dirs = {}
    /\ profile = [total_video_seconds |-> InitialSeconds]

\* C26: when the startup connectivity check fails the process exits before
\* the server listens, before any discovery query and before any clip is
\* processed: until the check has settled and once the process has exited
\* nothing has started and the server does not listen, and an exited
\* process takes no step.
C26_ExitBeforeAnything ==
    /\ [](worker.phase \in {"ping", "exited"} => (NothingStarted /\ ~Listening))
    /\ [][worker.phase = "exited" => UNCHANGED <<worker, ticks, http, storage, dirs>>]_vars

\* The check has failed and the process has exited; a clip inserted since
\* waits in status processing.
C26_Witness ==
    /\ worker.phase = "exited"
    /\ \E c \in DOMAIN clips : clips[c].status = "processing"

(***************************************************************************)
(* Properties of the order of the steps of a run                           *)
(***************************************************************************)
\* The awaits of processClip's try block in program order; the frame
\* uploads, one per frame file, come between the fifth and the sixth.
MainSteps ==
    <<"download", "probe", "capCheck", "extract", "thumbnail",
      "thumbnailUpload", "tag", "readyUpdate", "addSeconds">>

RECURSIVE WithoutFrameUploads(_)
WithoutFrameUploads(trace) ==
    IF trace = <<>> THEN <<>>
    ELSE IF Head(trace) = "frameUpload" THEN WithoutFrameUploads(Tail(trace))
    ELSE <<Head(trace)>> \o WithoutFrameUploads(Tail(trace))

IsPrefixOf(s, t) == Len(s) <= Len(t) /\ s = SubSeq(t, 1, Len(s))

\* The steps a run has taken are the steps of the try block in order, none
\* skipped, the frame uploads right after the thumbnail extraction, and at
\* most one error update, which is last.
StepsInOrder(trace) ==
    LET main == WithoutFrameUploads(trace)
        n == Len(main)
        tried == IF n > 0 /\ main[n] = "errorUpdate" THEN SubSeq(main, 1, n - 1) ELSE main
    IN
    /\ IsPrefixOf(tried, MainSteps)
    /\ \A i \in 1..Len(trace) :
          trace[i] = "frameUpload" =>
              /\ i > 1 /\ trace[i - 1] \in {"thumbnail", "frameUpload"}
              /\ \A j \in 1..(i - 1) : trace[j] # "errorUpdate"

\* The clip rows only change by an insert of the application, or when the
\* ready update or the error update of a run for that clip settles.
ClipWrittenOnlyByUpdates ==
    \A c \in DOMAIN clips :
        clips'[c] # clips[c] =>
            \/ clips[c].status = "absent"
            \/ \E t \in DOMAIN ticks :
                  /\ ticks[t].st = "running"
                  /\ ticks[t].run.clip = c
                  /\ ticks[t].run.pc \in {"readyUpdate", "errorUpdate"}
                  /\ ticks'[t] # ticks[t]

\* A run that has issued the ready update has uploaded every frame file
\* and the thumbnail, and tagClip has returned a description.
AllSucceeded(run) ==
    LET onDisk == {k \in 1..run.frameCount : k \in run.frames} IN
    /\ Cardinality({i \in 1..Len(run.trace) : run.trace[i] = "frameUpload"})
          = Cardinality(onDisk)
    /\ \A k \in onDisk : FrameObject(run.clip, k) \in storage
    /\ ThumbnailObject(run.clip) \in storage
    /\ run.description # ""

ResponseFailure(err) ==
    err.message \in
        {"Empty response from Claude API", "Claude returned an empty description"}
            \cup {"Could not parse Claude response as JSON: " \o r.text : r \in TagResponses}

\* C28: a response that is empty, cannot be parsed as JSON or has a missing,
\* non-string or blank description is a retryable failure: on attempt n < 3
\* tagClip does not raise it but sleeps 2000 * 2^(n-1) ms before attempt n+1.
C28_ResponseFailureRetried ==
    (ResponseFailure(tg.lastError) /\ tg.lastError.attempt \in 1..(MAX_RETRIES - 1)) =>
        /\ Len(tg.log) >= 2 * tg.lastError.attempt
        /\ tg.log[2 * tg.lastError.attempt] = <<"sleep", RetryDelay(tg.lastError.attempt)>>
        /\ ~(tg.pc = "thrown" /\ Cardinality(TgCalls) = tg.lastError.attempt)

\* The failures of the three kinds whose message names no auth error are
\* retried.
C28_OtherResponseFailuresRetried ==
    (ResponseFailure(tg.lastError) /\ ~isAuthError(tg.lastError)
        /\ tg.lastError.attempt \in 1..(MAX_RETRIES - 1)) =>
        /\ Len(tg.log) >= 2 * tg.lastError.attempt
        /\ tg.log[2 * tg.lastError.attempt] = <<"sleep", RetryDelay(tg.lastError.attempt)>>
        /\ ~(tg.pc = "thrown" /\ Cardinality(TgCalls) = tg.lastError.attempt)

\* An unparseable response whose text names a permission error ends tagClip
\* on the first attempt.
C28_ParseErrorNotRetried ==
    /\ tg.pc = "thrown"
    /\ tg.lastError.attempt = 1
    /\ tg.lastError.status = 0
    /\ tg.lastError.message = "Could not parse Claude response as JSON: Sorry: permission_error"
    /\ tg.log = <<<<"call", 1>>>>

(***************************************************************************)
(* Properties of the stride of the frame sampler                           *)
(***************************************************************************)
\* The indices 1, 1+s, 1+2s, ... up to n, the first MAX_FRAMES_PER_CALL of
\* them, for s = max(1, floor(n / MAX_FRAMES_PER_CALL)).
StrideIndices(n) ==
    LET s == Max2(1, n \div MAX_FRAMES_PER_CALL) IN
    {i \in 1..n : (i - 1) % s = 0 /\ (i - 1) \div s < MAX_FRAMES_PER_CALL}

\* The k-th index of the stride walk.
StrideIndex(n, k) == 1 + (k - 1) * Max2(1, n \div MAX_FRAMES_PER_CALL)

AllOnDisk == fs.pc = "returned" /\ fs.frameCount >= 1 /\ fs.present = 1..fs.frameCount

\* C29: for N >= 1 frames all on disk the frames returned are frames 1, 1+s,
\* 1+2s, ... with s = max(1, floor(N / 20)), taken while the index is <= N
\* and fewer than 20 frames are selected, in that order.
C29_StrideSelection ==
    AllOnDisk =>
        /\ Len(fs.selected) = Cardinality(StrideIndices(fs.frameCount))
        /\ \A k \in 1..Len(fs.selected) :
              fs.selected[k] = FramePath(StrideIndex(fs.frameCount, k))

\* What holds of the frames returned: they start with the frames of the
\* stride walk, in ascending order from frame 1, and whatever follows them
\* is the last frame alone.
C29_StridePrefix ==
    AllOnDisk =>
        LET n == fs.frameCount
            walked == Cardinality(StrideIndices(n))
        IN
        /\ walked >= 1
        /\ Len(fs.selected) \in {walked, walked + 1}
        /\ \A k \in 1..walked : fs.selected[k] = FramePath(StrideIndex(n, k))
        /\ Len(fs.selected) = walked + 1 =>
              /\ fs.selected[walked + 1] = FramePath(n)
              /\ StrideIndex(n, walked) < n
              /\ walked = MAX_FRAMES_PER_CALL

\* 41 frames: stride 2 takes frames 1, 3, ..., 39, and frame 41 is returned
\* as a twenty-first frame.
C29_LastFrameAppended ==
    /\ AllOnDisk
    /\ fs.frameCount = 41
    /\ Len(fs.selected) = MAX_FRAMES_PER_CALL + 1
    /\ fs.selected[2] = FramePath(3)
    /\ fs.selected[MAX_FRAMES_PER_CALL + 1] = FramePath(41)

(***************************************************************************)
(* Properties of the embedding calls of computeMatches                     *)
(***************************************************************************)
SegmentOf(c) == c.segments[c.i].id

ClipOf(c) == c.clips[c.i].id

\* The embedding model is called (generateEmbedding is entered) by
\* invocation i in this step.
SegmentEmbedIssued(i) == calls'[i].pc = "segmentEmbed" /\ calls[i].pc # "segmentEmbed"

ClipEmbedIssued(i) == calls'[i].pc = "clipEmbed" /\ calls[i].pc # "clipEmbed"

\* The model is called only for a fetched segment or ready clip whose
\* stored embedding is absent, from the ensure step of that row.
EmbedOnlyForAbsent ==
    \A i \in DOMAIN calls :
        /\ SegmentEmbedIssued(i) =>
              /\ calls[i].pc = "segmentFetch" /\ calls'[i].i = calls[i].i
              /\ ~HasEmbedding(segments[SegmentOf(calls[i])])
        /\ ClipEmbedIssued(i) =>
              /\ calls[i].pc = "clipFetch" /\ calls'[i].i = calls[i].i
              /\ ~HasEmbedding(clips[ClipOf(calls[i])])
              /\ clips[ClipOf(calls[i])].status = "ready"

\* The ensure step of a row is entered once per invocation: the loops go
\* through the fetched rows, which are distinct, in ascending index.
EmbedOncePerRow ==
    \A i \in DOMAIN calls :
        /\ (calls'[i].pc = "segmentFetch"
              /\ <<calls'[i].pc, calls'[i].i>> # <<calls[i].pc, calls[i].i>>) =>
              \/ calls[i].pc = "clipQuery"
              \/ calls[i].pc = "segmentRefetch" /\ calls'[i].i > calls[i].i
        /\ (calls'[i].pc = "clipFetch"
              /\ <<calls'[i].pc, calls'[i].i>> # <<calls[i].pc, calls[i].i>>) =>
              \/ calls[i].pc \in {"clipQuery", "segmentRefetch"}
              \/ calls[i].pc = "clipRefetch" /\ calls'[i].i > calls[i].i
        /\ \A j, k \in DOMAIN calls[i].segments :
              calls[i].segments[j].id = calls[i].segments[k].id => j = k
        /\ \A j, k \in DOMAIN calls[i].clips :
              calls[i].clips[j].id = calls[i].clips[k].id => j = k

\* A stored embedding is not replaced.
EmbeddingNeverOverwritten ==
    /\ \A s \in DOMAIN segments :
          segments'[s].embedding # segments[s].embedding => ~HasEmbedding(segments[s])
    /\ \A c \in DOMAIN clips :
          clips'[c].embedding # clips[c].embedding => ~HasEmbedding(clips[c])

\* C30: computeMatches calls the embedding model only for segments and ready
\* clips whose stored embedding is absent, at most once per row per
\* invocation, and never overwrites an embedding that is already stored.
C30_EmbedOnlyMissing ==
    [][EmbedOnlyForAbsent /\ EmbedOncePerRow /\ EmbeddingNeverOverwritten]_vars

\* What holds with overlapping invocations: the model is called only for
\* rows found without an embedding, once per row and invocation.
C30_EmbedCalls == [][EmbedOnlyForAbsent /\ EmbedOncePerRow]_vars

\* A stored embedding is replaced only by an invocation that another one
\* overlapped.
C30_OverwriteNeedsOverlap ==
    [][EmbeddingNeverOverwritten
        \/ \E i \in DOMAIN calls :
              /\ calls[i].pc \in {"segmentStore", "clipStore"}
              /\ calls'[i].pc # calls[i].pc
              /\ calls[i].overlapped]_vars

\* Two invocations have both called the model for segment 1; one has stored
\* its embedding and the update of the other is in flight.
C30_SecondStoreInFlight ==
    \E i \in DOMAIN calls :
        /\ calls[i].pc = "segmentStore"
        /\ HasEmbedding(segments[SegmentOf(calls[i])])

(***************************************************************************)
(* Properties of clips with an empty text                                  *)
(***************************************************************************)
\* Clip c is ready and its description and tags give the empty text.
EmptyTextClip(c) ==
    /\ clips[c].status = "ready"
    /\ clipTextForEmbedding(clips[c].description, clips[c].tags) = <<>>
    /\ ~HasEmbedding(clips[c])

\* The errors computeMatches can end with while it ensures the embedding of
\* a clip without text: the store's, and the length check of the scoring
\* that follows the last clip.
ErrorsNotOfEmptyText ==
    {"Failed to fetch clip", "Cannot read properties of null", "Vectors must have same length"}

\* C31: a ready clip whose description and tags give an empty text gets no
\* embedding-model call and no stored embedding, is in no match row, and
\* does not make computeMatches fail: the invocation goes on, the clips it
\* scores are the fetched clips that have a text, and when it returns every
\* embedded segment has its rows for the embedded ready clips.
C31_EmptyTextClipSkipped ==
    /\ [](\A c \in DOMAIN clips :
             EmptyTextClip(c) =>
                 /\ \A r \in DOMAIN matches : r.clip_id # c
                 /\ \A i \in DOMAIN calls :
                       calls[i].pc \in {"clipEmbed", "clipStore"} => ClipOf(calls[i]) # c)
    /\ [](\A i \in DOMAIN calls :
             calls[i].pc = "insert" =>
                 \A k \in DOMAIN calls[i].clips :
                     HasEmbedding(calls[i].clips[k]) <=> ~EmptyTextClip(calls[i].clips[k].id))
    /\ []((calls[1].pc = "returned" /\ \E c \in DOMAIN clips : EmptyTextClip(c)) =>
             \A s \in DOMAIN segments :
                 HasEmbedding(segments[s]) =>
                     RowCount(matches, s)
                         = Min2(calls[1].topK, Cardinality(ReadyClipsWithEmbedding(clips))))
    /\ [][\A c \in DOMAIN clips :
             EmptyTextClip(c) =>
                 /\ clips'[c] = clips[c]
                 /\ \A i \in DOMAIN calls :
                       (calls[i].pc \in {"clipFetch", "clipRefetch"} /\ ClipOf(calls[i]) = c
                           /\ calls'[i].pc = "thrown")
                           => calls'[i].message \in ErrorsNotOfEmptyText]_vars

\* An invocation has returned in a project with a clip without text and a
\* tagged clip: the segment has its one row, for the tagged clip.
C31_Witness ==
    /\ calls[1].pc = "returned"
    /\ \E c, d \in DOMAIN clips :
          /\ EmptyTextClip(c)
          /\ HasEmbedding(clips[d]) /\ clips[d].description # ""
          /\ segments # <<>>
          /\ RowsOf(matches, 1) # {}
          /\ \A r \in RowsOf(matches, 1) : r.clip_id = d

(***************************************************************************)
(* Properties of a failed processMatches                                   *)
(***************************************************************************)
\* The processMatches of request req has thrown and the handler has caught
\* the error.
MatchFailureCaught(req) == req.st = "done" /\ Includes(req.events, Logged)

\* processMatches is started by a request whose body has just ended, and by
\* nothing else.
StartedByRequestOnly ==
    \A i \in DOMAIN calls :
        (~CallActive(calls[i]) /\ CallActive(calls'[i])) =>
            \E r \in DOMAIN http.requests :
                /\ http.requests[r].st = "reading"
                /\ http'.requests[r].st = "matching"
                /\ http'.requests[r].call = i

\* C32: a failure of processMatches after the 202 response is caught by the
\* handler: the request has its one response (202) and one processMatches
\* call, no invocation is started but by a new request, and the worker goes
\* on: the server listens, a request that has not arrived can arrive and
\* the poll timer can fire.
C32_MatchFailureCaught ==
    /\ [](\A r \in DOMAIN http.requests :
             MatchFailureCaught(http.requests[r]) =>
                 /\ http.requests[r].events = <<Response(202), Started, Logged>>
                 /\ ~CallActive(calls[http.requests[r].call])
                       \/ ~Unawaited(http.requests[r].call)
                 /\ Listening
                 /\ ENABLED TimerFires
                 /\ (\E q \in DOMAIN http.requests : http.requests[q].st = "none")
                       => ENABLED RequestArrives)
    /\ [][StartedByRequestOnly
          /\ \A r \in DOMAIN http.requests :
                MatchFailureCaught(http.requests[r]) =>
                    http'.requests[r] = http.requests[r]]_vars

\* The processMatches of the first request has failed; the second request,
\* which arrived later, was answered 202 and its processMatches is running
\* in the slot the first one has left.
C32_Witness ==
    /\ MatchFailureCaught(http.requests[1])
    /\ http.requests[2].st = "matching"
    /\ http.requests[2].call = http.requests[1].call
    /\ CallActive(calls[http.requests[2].call])

(***************************************************************************)
(* Properties of the usage counter                                         *)
(***************************************************************************)
\* The run of tick t goes on to call add_video_seconds in this step.
AddSecondsCalled(t) ==
    /\ ticks'[t].st = "running" /\ ticks'[t].run.pc = "addSeconds"
    /\ ~Awaits(t, "addSeconds")

\* The run of tick t, awaiting add_video_seconds, ends in this step.
AddSecondsEnds(t) == Awaits(t, "addSeconds") /\ ticks'[t] # ticks[t]

\* C33: a run changes total_video_seconds only after its ready update
\* succeeded, and then adds exactly the probed duration; a run that has
\* failed (it issues the error update) has not called add_video_seconds and
\* leaves the total unchanged.
C33_SecondsAfterReady ==
    /\ [][/\ \A t \in DOMAIN ticks :
                AddSecondsCalled(t) =>
                    /\ Awaits(t, "readyUpdate")
                    /\ clips'[ticks[t].run.clip] = ReadyRow(clips[ticks[t].run.clip], ticks[t].run)
                    /\ ticks'[t].run.duration = ticks[t].run.duration
                    /\ clips'[ticks[t].run.clip].duration_seconds = ticks[t].run.duration
          /\ profile' # profile =>
                \E t \in DOMAIN ticks :
                    /\ AddSecondsEnds(t)
                    /\ ticks[t].run.duration \in Durations
                    /\ profile'.total_video_seconds
                          = profile.total_video_seconds + ticks[t].run.duration]_vars
    /\ [](\A t \in DOMAIN ticks :
             (ticks[t].st = "running" /\ Includes(ticks[t].run.trace, "errorUpdate")) =>
                 ~Includes(ticks[t].run.trace, "addSeconds"))

\* A clip of 10 seconds is ready and its seconds have been added.
C33_Witness ==
    /\ profile.total_video_seconds = InitialSeconds + 10
    /\ \E c \in DOMAIN clips : clips[c].status = "ready" /\ clips[c].duration_seconds = 10
    /\ \A t \in DOMAIN ticks : ticks[t].st = "idle"

(***************************************************************************)
(* Properties of the usage counter over overlapping ticks                  *)
(***************************************************************************)
\* The seconds of the clips c, c+1, ... as their ready updates wrote them
\* (the error update leaves duration_seconds as it is).
RECURSIVE SecondsFrom(_)
SecondsFrom(c) ==
    IF c \notin DOMAIN clips THEN 0 ELSE clips[c].duration_seconds + SecondsFrom(c + 1)

\* The run of tick t has had its thumbnail upload accepted.
Uploaded(t) == ticks[t].st = "running" /\ Includes(ticks[t].run.trace, "tag")

\* C34: over all poll ticks, overlapping ones included, a clip's duration is
\* added to total_video_seconds at most once: the counter never exceeds its
\* initial value plus the durations written for the clips; only one run per
\* clip gets past the thumbnail upload, which the object store accepts once
\* per clip, and only such a run adds seconds, once.
C34_CountedOncePerClip ==
    /\ [](profile.total_video_seconds <= InitialSeconds + SecondsFrom(1))
    /\ [](\A t, u \in DOMAIN ticks :
             (Uploaded(t) /\ Uploaded(u) /\ ticks[t].run.clip = ticks[u].run.clip) => t = u)
    /\ [][/\ storage \subseteq storage'
          /\ \A t \in DOMAIN ticks :
                (ticks'[t].st = "running" /\ ticks'[t].run.pc = "tag" /\ ~Awaits(t, "tag")) =>
                    /\ ThumbnailObject(ticks'[t].run.clip) \notin storage
                    /\ ThumbnailObject(ticks'[t].run.clip) \in storage'
          /\ profile' # profile =>
                \E t \in DOMAIN ticks :
                    /\ Uploaded(t) /\ AddSecondsEnds(t)
                    /\ ~(ticks'[t].st = "running" /\ Includes(ticks'[t].run.trace, "tag"))]_vars

\* Two overlapping ticks have run the same clip: the seconds of the run that
\* made it ready have been added, and the other run has failed at an upload.
C34_Witness ==
    /\ profile.total_video_seconds = InitialSeconds + 10
    /\ \E t \in DOMAIN ticks :
          /\ Awaits(t, "errorUpdate")
          /\ ticks[t].run.message = "Failed to upload"
          /\ clips[ticks[t].run.clip].duration_seconds = 10

(***************************************************************************)
(* Properties of overlapping computeMatches invocations                    *)
(***************************************************************************)
\* Two invocations have been in progress at once (the second slot is used
\* only while the first is busy) and both have returned.
BothCompleted ==
    /\ Cardinality(DOMAIN calls) >= 2
    /\ \A i \in DOMAIN calls : calls[i].pc = "returned"

\* The largest topK of the invocations.
LargestTopK == CHOOSE k \in {calls[i].topK : i \in DOMAIN calls} :
                   \A i \in DOMAIN calls : calls[i].topK <= k

\* C35: after two overlapping computeMatches invocations have both
\* completed, every segment has at most topK match rows and no two rows of
\* a segment share a rank or a clip.
C35_OverlapKeepsRanks ==
    BothCompleted =>
        \A s \in DOMAIN segments :
            /\ RowCount(matches, s) <= LargestTopK
            /\ \A r \in RowsOf(matches, s) : matches[r] = 1
            /\ \A r, q \in RowsOf(matches, s) :
                  r # q => r.rank # q.rank /\ r.clip_id # q.clip_id

\* Both invocations ran with topK = 1 and have returned: segment 1 has two
\* rows of rank 1.
C35_RowsOfBoth ==
    /\ BothCompleted
    /\ \A i \in DOMAIN calls : calls[i].topK = 1
    /\ RowCount(matches, 1) = 2
    /\ \A r \in RowsOf(matches, 1) : r.rank = 1

(***************************************************************************)
(* Properties of a computeMatches that fails before the delete             *)
(***************************************************************************)
\* The awaits of the two queries and of the embedding loops.
ProvisioningSteps ==
    {"segmentQuery", "clipQuery", "segmentFetch", "segmentEmbed", "segmentStore",
     "segmentRefetch", "clipFetch", "clipEmbed", "clipStore", "clipRefetch"}

\* The errors of the queries and of the embedding loops.
ProvisioningErrors ==
    {"Failed to fetch segments", "Failed to fetch clips", "Failed to fetch segment",
     "Failed to fetch clip", "embedding request failed",
     "Cannot generate embedding for empty text", "Failed to store embedding for segment",
     "Failed to store embedding for clip", "Cannot read properties of null"}

\* C36: a computeMatches that fails while it fetches segments or clips or
\* provisions embeddings has deleted and inserted no match row: such a
\* failure comes from a step before the delete, no step before the delete
\* changes the matches table, and no such step follows the delete.
C36_FailureBeforeDelete ==
    [][\A i \in DOMAIN calls :
          /\ calls[i].pc \in ProvisioningSteps =>
                /\ matches' = matches
                /\ calls'[i].pc = "thrown" => calls'[i].message \in ProvisioningErrors
          /\ (CallActive(calls[i]) /\ calls'[i].pc = "thrown"
                 /\ calls'[i].message \in ProvisioningErrors) =>
                calls[i].pc \in ProvisioningSteps
          /\ calls[i].pc \in {"delete", "insert"} =>
                calls'[i].pc \in {"delete", "insert", "returned", "thrown"}]_vars

\* The embedding model has failed for a clip of a matched project: the
\* rows of the earlier invocation are all there.
C36_Witness ==
    /\ calls[1].pc = "thrown"
    /\ calls[1].message = "embedding request failed"
    /\ segments # <<>>
    /\ \A s \in DOMAIN segments : RowCount(matches, s) > 0
    /\ \E q \in ClipOrders(clips, "error") : matches = RowsLeftBy(segments, clips, q)

(***************************************************************************)
(* Properties of the cap check without a profile row                       *)
(***************************************************************************)
\* C37: the cap check fails open: when the profile row cannot be read the
\* clip is admitted and the run goes on to the frame extraction, whatever
\* the accumulated seconds are; the run fails at the check only on a row
\* that was read and puts the sum over the cap.
C37_CapCheckFailsOpen ==
    [][\A t \in DOMAIN ticks :
          (Awaits(t, "capCheck") /\ ticks'[t] # ticks[t]) =>
              /\ ticks'[t].st = "running"
              /\ ticks'[t].run.capRead \in {"failed", "row"}
              /\ ticks'[t].run.capRead = "failed" => ticks'[t].run.pc = "extract"
              /\ ticks'[t].run.pc = "errorUpdate" =>
                    /\ ticks'[t].run.capRead = "row"
                    /\ ~WithinCap(profile.total_video_seconds, ticks[t].run.duration)]_vars

\* The profile could not be read for a clip of 11 seconds, which puts the
\* total over the cap: the run is past the frame extraction.
C37_Witness ==
    \E t \in DOMAIN ticks :
        /\ Awaits(t, "thumbnail")
        /\ ticks[t].run.capRead = "failed"
        /\ ~WithinCap(profile.total_video_seconds, ticks[t].run.duration)

(***************************************************************************)
(* Properties of a failed discovery query                                  *)
(***************************************************************************)
\* poll() of tick t returns in this step from its discovery query.
PollReturnsFromQuery(t) == ticks[t].st = "query" /\ ticks'[t].st = "idle"

\* C38: when the discovery query of a tick returns an error the tick
\* invokes processClip for no clip and changes no clip record (nor anything
\* else the runs write), and later ticks still run: the interval timer is
\* set, or stays set, and fires while a poll() slot is free.
C38_QueryErrorSkipsTick ==
    /\ [][\A t \in DOMAIN ticks :
             (PollReturnsFromQuery(t) /\ (worker'.pollError # worker.pollError
                                             \/ DiscoveryQuery # <<>>)) =>
                 /\ worker'.pollError
                 /\ ticks'[t] = NoTick
                 /\ UNCHANGED <<clips, storage, dirs, profile>>
                 /\ worker'.phase = "interval"]_vars
    /\ []((worker.phase = "interval" /\ \E t \in DOMAIN ticks : ticks[t].st = "idle")
             => ENABLED TimerFires)
    /\ [](worker.pollError => worker.phase \in {"firstPoll", "interval"})

\* A discovery query has returned an error, and a later tick has found the
\* processing clips and runs the first of them.
C38_Witness ==
    /\ worker.pollError
    /\ \E t \in DOMAIN ticks :
          /\ ticks[t].st = "running"
          /\ clips[ticks[t].run.clip].status = "processing"

(***************************************************************************)
(* Properties of the working directories of overlapping runs               *)
(***************************************************************************)
\* C39: two runs in progress at the same time never use the same working
\* directory, and the directory of a run in progress is on disk: the
\* cleanup of one run deletes no file of another.
C39_OwnWorkDir ==
    \A t \in DOMAIN ticks :
        ticks[t].st = "running" =>
            /\ ticks[t].run.workDir \in dirs
            /\ \A u \in DOMAIN ticks :
                  (u # t /\ ticks[u].st = "running") =>
                      ticks[u].run.workDir # ticks[t].run.workDir

\* Two ticks have each started a run within one millisecond: tempDir() has
\* given both the same directory, and neither download has settled.
C39_SameMillisecond ==
    \E t, u \in DOMAIN ticks :
        /\ t # u
        /\ Awaits(t, "download") /\ Awaits(u, "download")
        /\ ticks[t].run.workDir = ticks[u].run.workDir

\* One of two runs of a shared directory has ended and deleted it: the
\* other run is in progress and its directory is gone.
C39_DirectoryDeletedUnderRun ==
    \E t \in DOMAIN ticks :
        /\ ticks[t].st = "running"
        /\ ticks[t].run.pc \in {"probe", "extract", "thumbnail", "frameUpload", "tag"}
        /\ ticks[t].run.workDir \notin dirs
====
